---- MODULE Spec2Model ----
(***************************************************************************)
(* A model of the math3d library (Vector, Matrix, Quaternion, MathUtil,    *)
(* CoordinateSys).  Each class is modelled by pure operators translated    *)
(* from its methods and by a small state machine that applies them.        *)
(*                                                                         *)
(* Numbers.  The library computes with Python floats.  A number is         *)
(* modelled as <<n, d, k>>, the value (n/d) * TINY^k with n/d a rational   *)
(* in lowest terms (d > 0) and TINY = 1e-20 the constant of                *)
(* Matrix.ludecomp.  k = 0 for every ordinary number.  Sums of two numbers *)
(* of different magnitude class k keep the larger one, as float addition   *)
(* absorbs a term that is 1e20 times smaller.  Rounding error of float     *)
(* arithmetic inside one magnitude class is not modelled.                  *)
(***************************************************************************)
EXTENDS Integers, Sequences, FiniteSets, TLC

VARIABLES
    va, vb, vin, vres, vres2,    \* Vector binary operations: operands, inputs as passed, results
    vec, vcall,                  \* a Vector object and the last call made on it
    q1, q2, qin, qres,           \* Quaternion operands, their values as bound, the products
    rsd,                         \* the last call of MathUtil.roundsd
    mat, mcall,                  \* a Matrix object and the last call made on it
    lu,                          \* a linear system A.x = b on its way through ludecomp and lubacksub
    heap, cs, held, cscall,      \* Matrix objects by identity, a CoordinateSys, the caller's
                                 \* reference from getBasis, the last transform call
    mop,                         \* one call of a Matrix constructor or query, with its arguments
    rc,                          \* a Matrix over row lists held by identity, and the Vector
                                 \* last returned by getRow or getColumn
    qi,                          \* a Quaternion, its inverse as returned, and their product
    tg,                          \* a TriangleGroup and the last call made on it
    cp,                          \* CoordinateSys objects by identity with their parents, and
                                 \* the last constructor or setParent call
    vs,                          \* a Vector v and the Vector w returned by v.mults, over
                                 \* element lists held by identity
    rt                           \* a CoordinateSys with an orthonormal basis and a vector
                                 \* taken through its two transforms

vecOpsVars == <<va, vb, vin, vres, vres2>>
vecObjVars == <<vec, vcall>>
quatVars == <<q1, q2, qin, qres>>
utilVars == <<rsd>>
matrixVars == <<mat, mcall>>
luVars == <<lu>>
csVars == <<heap, cs, held, cscall>>
matOpsVars == <<mop>>
rowColVars == <<rc>>
quatInvVars == <<qi>>
triVars == <<tg>>
parentVars == <<cp>>
shareVars == <<vs>>
tripVars == <<rt>>
vars ==
    <<vecOpsVars,
      vecObjVars,
      quatVars,
      utilVars,
      matrixVars,
      luVars,
      csVars,
      matOpsVars,
      rowColVars,
      quatInvVars,
      triVars,
      parentVars,
      shareVars,
      tripVars>>

\* What the operations of one class leave alone: the objects of the other classes.
notVecOps ==
    <<vecObjVars, quatVars, utilVars, matrixVars, luVars, csVars,
      matOpsVars, rowColVars, quatInvVars, triVars, parentVars,
      shareVars, tripVars>>
notVecObj ==
    <<vecOpsVars, quatVars, utilVars, matrixVars, luVars, csVars,
      matOpsVars, rowColVars, quatInvVars, triVars, parentVars,
      shareVars, tripVars>>
notQuat ==
    <<vecOpsVars, vecObjVars, utilVars, matrixVars, luVars, csVars,
      matOpsVars, rowColVars, quatInvVars, triVars, parentVars,
      shareVars, tripVars>>
notUtil ==
    <<vecOpsVars, vecObjVars, quatVars, matrixVars, luVars, csVars,
      matOpsVars, rowColVars, quatInvVars, triVars, parentVars,
      shareVars, tripVars>>
notMatrix ==
    <<vecOpsVars, vecObjVars, quatVars, utilVars, luVars, csVars,
      matOpsVars, rowColVars, quatInvVars, triVars, parentVars,
      shareVars, tripVars>>
notLU ==
    <<vecOpsVars, vecObjVars, quatVars, utilVars, matrixVars,
      csVars, matOpsVars, rowColVars, quatInvVars, triVars,
      parentVars, shareVars, tripVars>>
notCoordSys ==
    <<vecOpsVars, vecObjVars, quatVars, utilVars, matrixVars,
      luVars, matOpsVars, rowColVars, quatInvVars, triVars,
      parentVars, shareVars, tripVars>>
notMatOps ==
    <<vecOpsVars, vecObjVars, quatVars, utilVars, matrixVars,
      luVars, csVars, rowColVars, quatInvVars, triVars, parentVars,
      shareVars, tripVars>>
notRowCol ==
    <<vecOpsVars, vecObjVars, quatVars, utilVars, matrixVars,
      luVars, csVars, matOpsVars, quatInvVars, triVars, parentVars,
      shareVars, tripVars>>
notQuatInv ==
    <<vecOpsVars, vecObjVars, quatVars, utilVars, matrixVars,
      luVars, csVars, matOpsVars, rowColVars, triVars, parentVars,
      shareVars, tripVars>>
notTri ==
    <<vecOpsVars, vecObjVars, quatVars, utilVars, matrixVars,
      luVars, csVars, matOpsVars, rowColVars, quatInvVars,
      parentVars, shareVars, tripVars>>
notParent ==
    <<vecOpsVars, vecObjVars, quatVars, utilVars, matrixVars,
      luVars, csVars, matOpsVars, rowColVars, quatInvVars, triVars,
      shareVars, tripVars>>
notShare ==
    <<vecOpsVars, vecObjVars, quatVars, utilVars, matrixVars,
      luVars, csVars, matOpsVars, rowColVars, quatInvVars, triVars,
      parentVars, tripVars>>
notTrip ==
    <<vecOpsVars, vecObjVars, quatVars, utilVars, matrixVars,
      luVars, csVars, matOpsVars, rowColVars, quatInvVars, triVars,
      parentVars, shareVars>>

(***************************************************************************)
(* Bounds of the model.                                                    *)
(***************************************************************************)
MaxElem == 1
MaxSize == 4
MaxQElem == 1
MaxDigits == 12
MaxDim == 2
MaxCalls == 2
MaxAdds == 3
MaxSystems == 3

\* the largest element of the 2 x 2 matrices with unequal rows given to ludecomp
MaxPivot == 4

\* Vector.cross accepts exactly 3-element operands.
CrossDim == 3

(***************************************************************************)
(* Numbers                                                                 *)
(***************************************************************************)
Abs(i) == IF i < 0 THEN -i ELSE i

RECURSIVE GCD(_, _)
GCD(a, b) == IF b = 0 THEN a ELSE GCD(b, a % b)

Zero == <<0, 1, 0>>
One == <<1, 1, 0>>

\* float(x) of an integer x.
float(i) == <<i, 1, 0>>

RNorm(n, d, k) ==
    IF n = 0 THEN Zero
    ELSE LET g == GCD(Abs(n), d) IN <<n \div g, d \div g, k>>

RNeg(a) == <<-a[1], a[2], a[3]>>

RMul(a, b) ==
    IF a[1] = 0 \/ b[1] = 0 THEN Zero
    ELSE LET g1 == GCD(Abs(a[1]), b[2])
             g2 == GCD(Abs(b[1]), a[2])
         IN <<(a[1] \div g1) * (b[1] \div g2), (a[2] \div g2) * (b[2] \div g1), a[3] + b[3]>>

RAdd(a, b) ==
    IF a[1] = 0 THEN b
    ELSE IF b[1] = 0 THEN a
    ELSE IF a[3] < b[3] THEN a
    ELSE IF b[3] < a[3] THEN b
    ELSE RNorm(a[1] * b[2] + b[1] * a[2], a[2] * b[2], a[3])

RSub(a, b) == RAdd(a, RNeg(b))

RAbs(a) == <<Abs(a[1]), a[2], a[3]>>

\* a < b
RLt(a, b) == RSub(a, b)[1] < 0

RECURSIVE RSum(_)
RSum(s) == IF s = <<>> THEN Zero ELSE RAdd(RSum(SubSeq(s, 1, Len(s) - 1)), s[Len(s)])

RECURSIVE Pow10(_)
Pow10(e) == IF e = 0 THEN 1 ELSE 10 * Pow10(e - 1)

\* 10 ** e
RPow10(e) == IF e >= 0 THEN <<Pow10(e), 1, 0>> ELSE <<1, Pow10(-e), 0>>

\* a / b, b # 0
RDiv(a, b) ==
    LET r == IF b[1] > 0 THEN <<b[2], b[1], -b[3]>> ELSE <<-b[2], -b[1], -b[3]>>
    IN RMul(a, r)

\* round(x) of Python 2 for x >= 0: to the nearest integer, halves upwards.
round0(x) == <<(x[1] \div x[2]) + (IF 2 * (x[1] % x[2]) >= x[2] THEN 1 ELSE 0), 1, 0>>

\* round(x, places) of Python 2: to the nearest multiple of 10**-places,
\* halves away from zero.
pyround(x, places) ==
    LET s == RMul(RAbs(x), RPow10(places))
        r == RMul(round0(s), RPow10(-places))
    IN IF x[1] < 0 THEN RNeg(r) ELSE r

(***************************************************************************)
(* Vector.  A Vector is modelled by its element list mV.  An operand that  *)
(* may be any sequence is a record [kind, items] with kind "Vector",       *)
(* "list" or "tuple".  Every operation returns the error it raises         *)
(* ("none" when it returns normally), its return value and the operands    *)
(* as the call leaves them.                                                *)
(***************************************************************************)
NoVec == <<>>

\* The Python list of the items f[1], ..., f[n], each evaluated once.
list(f, n) == SubSeq(f, 1, n)

\* zip(self, v): pairs up to the shorter operand.
zip(a, b) ==
    LET n == IF Len(a) < Len(b) THEN Len(a) ELSE Len(b)
    IN list([i \in 1..n |-> <<a[i], b[i]>>], n)

\* Vector(*seq): a new element list holding float(x) of every item.
Vector_fromSequence(seq) == list([i \in 1..Len(seq) |-> seq[i]], Len(seq))

Vector_zeros(num) == [i \in 1..num |-> float(0)]

Vector_ones(num) == [i \in 1..num |-> float(1)]

Vector_add(self, v) ==
    IF Len(self) # Len(v)
    THEN [err |-> "IndexError", vec |-> NoVec, num |-> Zero, self |-> self, v |-> v]
    ELSE LET z == zip(self, v)
         IN [err |-> "none",
             vec |-> Vector_fromSequence([i \in 1..Len(z) |-> RAdd(z[i][1], z[i][2])]),
             num |-> Zero, self |-> self, v |-> v]

\* Mutant: the difference taken the wrong way round.
Vector_sub_Swapped(self, v) ==
    IF Len(self) # Len(v)
    THEN [err |-> "IndexError", vec |-> NoVec, num |-> Zero, self |-> self, v |-> v]
    ELSE LET z == zip(self, v)
         IN [err |-> "none",
             vec |-> Vector_fromSequence([i \in 1..Len(z) |-> RSub(z[i][2], z[i][1])]),
             num |-> Zero, self |-> self, v |-> v]

Vector_sub(self, v) ==
    IF Len(self) # Len(v)
    THEN [err |-> "IndexError", vec |-> NoVec, num |-> Zero, self |-> self, v |-> v]
    ELSE LET z == zip(self, v)
         IN [err |-> "none",
             vec |-> Vector_fromSequence([i \in 1..Len(z) |-> RSub(z[i][1], z[i][2])]),
             num |-> Zero, self |-> self, v |-> v]

\* Mutant: only a shorter self is rejected.
Vector_dot_ShortOnly(self, v) ==
    IF Len(self) < Len(v)
    THEN [err |-> "IndexError", vec |-> NoVec, num |-> Zero, self |-> self, v |-> v]
    ELSE LET z == zip(self, v)
         IN [err |-> "none", vec |-> NoVec,
             num |-> RSum([i \in 1..Len(z) |-> RMul(z[i][1], z[i][2])]),
             self |-> self, v |-> v]

Vector_dot(self, v) ==
    IF Len(self) # Len(v)
    THEN [err |-> "IndexError", vec |-> NoVec, num |-> Zero, self |-> self, v |-> v]
    ELSE LET z == zip(self, v)
         IN [err |-> "none", vec |-> NoVec,
             num |-> RSum([i \in 1..Len(z) |-> RMul(z[i][1], z[i][2])]),
             self |-> self, v |-> v]

\* Mutant: the y component with its two products exchanged.
Vector_cross_YSign(self, v) ==
    IF (Len(self) # CrossDim) \/ (Len(v) # CrossDim)
    THEN [err |-> "IndexError", vec |-> NoVec, num |-> Zero, self |-> self, v |-> v]
    ELSE LET x1 == self[1]  y1 == self[2]  z1 == self[3]
             x2 == v[1]     y2 == v[2]     z2 == v[3]
             x == RSub(RMul(y1, z2), RMul(y2, z1))
             y == RSub(RMul(z2, x1), RMul(z1, x2))
             z == RSub(RMul(x1, y2), RMul(x2, y1))
         IN [err |-> "none", vec |-> <<x, y, z>>, num |-> Zero, self |-> self, v |-> v]

Vector_cross(self, v) ==
    IF (Len(self) # CrossDim) \/ (Len(v) # CrossDim)
    THEN [err |-> "IndexError", vec |-> NoVec, num |-> Zero, self |-> self, v |-> v]
    ELSE LET x1 == self[1]  y1 == self[2]  z1 == self[3]
             x2 == v[1]     y2 == v[2]     z2 == v[3]
             x == RSub(RMul(y1, z2), RMul(y2, z1))
             y == RSub(RMul(z1, x2), RMul(z2, x1))
             z == RSub(RMul(x1, y2), RMul(x2, y1))
         IN [err |-> "none", vec |-> <<x, y, z>>, num |-> Zero, self |-> self, v |-> v]

\* self == v, element by element.
Vector_eq(self, v) ==
    IF Len(self) # Len(v) THEN FALSE
    ELSE \A i \in 1..Len(self) : self[i] = v[i]

(***************************************************************************)
(* Vector binary operations applied to a pair of operands.                 *)
(***************************************************************************)
Elems == {float(i) : i \in -MaxElem..MaxElem}

VecInputs ==
    UNION {[1..n -> Elems] : n \in 0..CrossDim}
        \cup {Vector_zeros(CrossDim + 1), Vector_ones(CrossDim + 1)}

OperandKinds == {"Vector", "list", "tuple"}

NoResult == [op |-> "none", err |-> "none", vec |-> NoVec, num |-> Zero]

VecOpsInit ==
    /\ va \in VecInputs
    /\ vb \in [kind : OperandKinds, items : VecInputs]
    /\ vin = [a |-> va, b |-> vb.items]
    /\ vres = NoResult
    /\ vres2 = NoResult

VecOpsIdle ==
    /\ va = NoVec
    /\ vb = [kind |-> "Vector", items |-> NoVec]
    /\ vin = [a |-> NoVec, b |-> NoVec]
    /\ vres = NoResult
    /\ vres2 = NoResult

\* The first call on the operands: va is self, vb the right operand.
Apply(op, r) ==
    /\ vres' = [op |-> op, err |-> r.err, vec |-> r.vec, num |-> r.num]
    /\ va' = r.self
    /\ vb' = [vb EXCEPT !.items = r.v]
    /\ UNCHANGED <<vin, vres2>>
    /\ UNCHANGED notVecOps

\* A second call, made with the first call's result.
Apply2(op, r) ==
    /\ vres2' = [op |-> op, err |-> r.err, vec |-> r.vec, num |-> r.num]
    /\ UNCHANGED <<va, vb, vin, vres>>
    /\ UNCHANGED notVecOps

\* vsum = va + vb
VAdd == vres.op = "none" /\ Apply("add", Vector_add(va, vb.items))

\* vdiff = va - vb
VSub == vres.op = "none" /\ Apply("sub", Vector_sub(va, vb.items))

\* va.dot(vb)
VDot == vres.op = "none" /\ Apply("dot", Vector_dot(va, vb.items))

\* va.cross(vb)
VCross == vres.op = "none" /\ Apply("cross", Vector_cross(va, vb.items))

\* (va + vb) - vb
VSubBack ==
    /\ vres.op = "add" /\ vres.err = "none" /\ vres2.op = "none"
    /\ Apply2("subback", Vector_sub(vres.vec, vb.items))

\* vb.cross(va), for a right operand that is a Vector
VCrossRev ==
    /\ vres.op = "cross" /\ vres.err = "none" /\ vres2.op = "none"
    /\ vb.kind = "Vector"
    /\ Apply2("crossrev", Vector_cross(vb.items, va))

\* va.dot(va.cross(vb))
VDotCross ==
    /\ vres.op = "cross" /\ vres.err = "none" /\ vres2.op = "none"
    /\ Apply2("dotcross", Vector_dot(va, vres.vec))

VecOpsNext == VAdd \/ VSub \/ VDot \/ VCross \/ VSubBack \/ VCrossRev \/ VDotCross


(***************************************************************************)
(* A Vector object: construction, then indexed assignment and deletion.    *)
(* Python's None is <<>> and an integer argument n is <<n>>.               *)
(***************************************************************************)
None == <<>>
PyInt(n) == <<n>>

\* Mutant: a size equal to the number of supplied values is refused too.
Vector_init_SizeLe(args, kwargs) ==
    LET mV == [i \in 1..Len(args) |-> float(args[i])]
    IN IF \E arg \in DOMAIN kwargs : arg \notin {"size"}
       THEN [err |-> "ValueError", mV |-> NoVec]
       ELSE IF "size" \in DOMAIN kwargs /\ kwargs["size"] # None
       THEN IF kwargs["size"][1] <= Len(args)
            THEN [err |-> "IndexError", mV |-> NoVec]
            ELSE LET nToAdd == kwargs["size"][1] - Len(args)
                 IN [err |-> "none", mV |-> mV \o [i \in 1..nToAdd |-> float(0)]]
       ELSE [err |-> "none", mV |-> mV]

\* Vector(*args, **kwargs)
Vector_init(args, kwargs) ==
    LET mV == [i \in 1..Len(args) |-> float(args[i])]
    IN IF \E arg \in DOMAIN kwargs : arg \notin {"size"}
       THEN [err |-> "ValueError", mV |-> NoVec]
       ELSE IF "size" \in DOMAIN kwargs /\ kwargs["size"] # None
       THEN IF kwargs["size"][1] < Len(args)
            THEN [err |-> "IndexError", mV |-> NoVec]
            ELSE LET nToAdd == kwargs["size"][1] - Len(args)
                 IN [err |-> "none", mV |-> mV \o [i \in 1..nToAdd |-> float(0)]]
       ELSE [err |-> "none", mV |-> mV]

\* list.__setitem__(key, value) with an integer key; a negative key counts from the end.
list_setitem(l, key, value) ==
    IF key >= Len(l) \/ key < -Len(l)
    THEN [err |-> "IndexError", l |-> l]
    ELSE [err |-> "none",
          l |-> [l EXCEPT ![(IF key < 0 THEN key + Len(l) ELSE key) + 1] = value]]

\* Mutant: the elements from key on are deleted.
list_delitem_Tail(l, key) ==
    IF key >= Len(l) \/ key < -Len(l)
    THEN [err |-> "IndexError", l |-> l]
    ELSE LET k == (IF key < 0 THEN key + Len(l) ELSE key) + 1
         IN [err |-> "none", l |-> SubSeq(l, 1, k - 1)]

\* list.__delitem__(key) with an integer key.
list_delitem(l, key) ==
    IF key >= Len(l) \/ key < -Len(l)
    THEN [err |-> "IndexError", l |-> l]
    ELSE LET k == (IF key < 0 THEN key + Len(l) ELSE key) + 1
         IN [err |-> "none", l |-> SubSeq(l, 1, k - 1) \o SubSeq(l, k + 1, Len(l))]

\* l[key] of a list with an integer key
list_getitem(l, key) ==
    IF key >= Len(l) \/ key < -Len(l)
    THEN [err |-> "IndexError", item |-> None]
    ELSE [err |-> "none", item |-> l[(IF key < 0 THEN key + Len(l) ELSE key) + 1]]

\* self.scale(s): every element multiplied in place; the value is the new mV.
Vector_scale(self, s) == list([n \in 1..Len(self) |-> RMul(self[n], s)], Len(self))

\* self.mults(s): a scaled copy; self is the receiver as the call leaves it.
Vector_mults(self, s) ==
    LET prod == Vector_fromSequence(self)
    IN [ret |-> Vector_scale(prod, s), self |-> self]

\* The integer square root
ISqrt(n) == CHOOSE r \in 0..n : r * r <= n /\ n < (r + 1) * (r + 1)

\* math.sqrt(x) of x >= 0 where the root is a rational number, None where it
\* is not (the model holds no irrational number).
math_sqrt(x) ==
    IF ISqrt(x[1]) * ISqrt(x[1]) = x[1] /\ ISqrt(x[2]) * ISqrt(x[2]) = x[2]
    THEN <<<<ISqrt(x[1]), ISqrt(x[2]), 0>>>> ELSE <<>>

\* self.norm()
Vector_norm(self) == math_sqrt(RSum([i \in 1..Len(self) |-> RMul(self[i], self[i])]))

\* self.normalize(): 1.0 / norm raises for the norm 0 before mV is assigned
Vector_normalize(self) ==
    IF Vector_norm(self)[1] = Zero THEN [err |-> "ZeroDivisionError", self |-> self]
    ELSE LET n == RDiv(One, Vector_norm(self)[1])
         IN [err |-> "none", self |-> list([i \in 1..Len(self) |-> RMul(self[i], n)], Len(self))]

\* self.round(places); the value is the new mV
Vector_round(self, places) == list([i \in 1..Len(self) |-> pyround(self[i], places)], Len(self))

\* self.clone()
Vector_clone(self) ==
    LET v == SubSeq(self, 1, Len(self))
    IN [ret |-> Vector_fromSequence(v), self |-> self]

Keywords == {"size", "foo"}

CtorArgs == UNION {[1..n -> -MaxElem..MaxElem] : n \in 0..CrossDim}

CtorKwargs ==
    {kw \in UNION {[K -> {None} \cup {PyInt(n) : n \in 0..MaxSize}] : K \in SUBSET Keywords} :
        "foo" \in DOMAIN kw => kw["foo"] = PyInt(1)}

\* pre is the element list as it was before the call, ret what the call
\* returned (a number or a truth value as a list of one element).
NoCall == [op |-> "none", args |-> <<>>, kwargs |-> <<>>, err |-> "none",
           pre |-> NoVec, ret |-> NoVec]

VecObjInit ==
    /\ vec = [live |-> FALSE, mV |-> NoVec]
    /\ vcall = NoCall

VecObjIdle == VecObjInit

\* Scalars of scale and mults, places of round, the other operand of the
\* binary operations (an empty, two 3-element and one full-size vector).
ScaleFactors == {float(-1), Zero}

RoundPlaces == {0, 1}

OtherVectors ==
    {NoVec, <<One, Zero, Zero>>, <<Zero, float(-1), One>>, [i \in 1..MaxSize |-> One]}

\* vec = Vector(*args, **kwargs): __init__ runs once on an object; a failed
\* construction binds nothing.
VectorNew(args, kwargs) ==
    LET r == Vector_init(args, kwargs)
    IN /\ ~vec.live
       /\ vec' = IF r.err = "none" THEN [live |-> TRUE, mV |-> r.mV] ELSE vec
       /\ vcall' = [NoCall EXCEPT !.op = "init", !.args = args, !.kwargs = kwargs, !.err = r.err]
       /\ UNCHANGED notVecObj

\* A call on the live vector that leaves it with the elements mV.
VecCall(op, args, mV, err, ret) ==
    /\ vec' = [vec EXCEPT !.mV = mV]
    /\ vcall' = [NoCall EXCEPT !.op = op, !.args = args, !.err = err,
                               !.pre = vec.mV, !.ret = ret]
    /\ UNCHANGED notVecObj

\* vec[key] = value
VectorSetItem(key, value) ==
    LET r == list_setitem(vec.mV, key, value)
    IN vec.live /\ VecCall("setitem", <<key, value>>, r.l, r.err, NoVec)

\* del vec[key]
VectorDelItem(key) ==
    LET r == list_delitem(vec.mV, key)
    IN vec.live /\ VecCall("delitem", <<key>>, r.l, r.err, NoVec)

\* vec[key]
VectorGetItem(key) ==
    LET r == list_getitem(vec.mV, key)
    IN vec.live /\ VecCall("getitem", <<key>>, vec.mV, r.err,
                           IF r.err = "none" THEN <<r.item>> ELSE NoVec)

\* vec.scale(s)
VectorScale(s) == vec.live /\ VecCall("scale", <<s>>, Vector_scale(vec.mV, s), "none", NoVec)

\* vec.mults(s)
VectorMults(s) ==
    LET r == Vector_mults(vec.mV, s)
    IN vec.live /\ VecCall("mults", <<s>>, r.self, "none", r.ret)

\* vec.normalize(), for the vectors of elements of Elems whose norm is a
\* rational number
VectorNormalize ==
    LET r == Vector_normalize(vec.mV)
    IN vec.live /\ (\A i \in 1..Len(vec.mV) : vec.mV[i] \in Elems)
                /\ Vector_norm(vec.mV) # None
                /\ VecCall("normalize", <<>>, r.self, r.err, r.self)

\* vec.round(places)
VectorRound(places) ==
    LET r == Vector_round(vec.mV, places)
    IN vec.live /\ VecCall("round", <<places>>, r, "none", r)

\* vec + v
VectorAdd(v) ==
    LET r == Vector_add(vec.mV, v)
    IN vec.live /\ VecCall("add", <<v>>, r.self, r.err, r.vec)

\* vec - v
VectorSub(v) ==
    LET r == Vector_sub(vec.mV, v)
    IN vec.live /\ VecCall("sub", <<v>>, r.self, r.err, r.vec)

\* vec.dot(v)
VectorDot(v) ==
    LET r == Vector_dot(vec.mV, v)
    IN vec.live /\ VecCall("dot", <<v>>, r.self, r.err,
                           IF r.err = "none" THEN <<r.num>> ELSE NoVec)

\* vec.cross(v)
VectorCross(v) ==
    LET r == Vector_cross(vec.mV, v)
    IN vec.live /\ VecCall("cross", <<v>>, r.self, r.err, r.vec)

\* vec.clone()
VectorClone ==
    LET r == Vector_clone(vec.mV)
    IN vec.live /\ VecCall("clone", <<>>, r.self, "none", r.ret)

\* vec == v
VectorEq(v) == vec.live /\ VecCall("eq", <<v>>, vec.mV, "none", <<Vector_eq(vec.mV, v)>>)

VecObjNext ==
    \/ \E args \in CtorArgs, kwargs \in CtorKwargs : VectorNew(args, kwargs)
    \/ \E key \in -1..MaxSize, value \in Elems : VectorSetItem(key, value)
    \/ \E key \in -1..MaxSize : VectorDelItem(key)
    \/ \E key \in -1..MaxSize : VectorGetItem(key)
    \/ \E s \in ScaleFactors : VectorScale(s)
    \/ \E s \in ScaleFactors : VectorMults(s)
    \/ VectorNormalize
    \/ \E places \in RoundPlaces : VectorRound(places)
    \/ \E v \in OtherVectors : VectorAdd(v)
    \/ \E v \in OtherVectors : VectorSub(v)
    \/ \E v \in OtherVectors : VectorDot(v)
    \/ \E v \in OtherVectors : VectorCross(v)
    \/ VectorClone
    \/ \E v \in OtherVectors : VectorEq(v)

(***************************************************************************)
(* Quaternion: a scalar _s and a 3-element Vector _v.                      *)
(***************************************************************************)
\* Vector(a, b, c) of three floats: float(x) of a float is x.
Vector3(a, b, c) == <<a, b, c>>

Quaternion_init(s, a, b, c) == [s |-> s, v |-> Vector3(a, b, c)]

Quaternion_fromScalarVector(scalar, vector) ==
    Quaternion_init(scalar, vector[1], vector[2], vector[3])

Quaternion_eq(self, q) == self.s = q.s /\ Vector_eq(self.v, q.v)

\* Mutant: the cross product term left out.
Quaternion_mul1_NoCross(self, q) ==
    LET d == Vector_dot(self.v, q.v)
        s == RSub(RMul(self.s, q.s), d.num)
        m1 == Vector_mults(d.v, self.s)
        m2 == Vector_mults(d.self, q.s)
        sum1 == Vector_add(m1.ret, m2.ret)
        v == sum1.vec
    IN [ret |-> Quaternion_fromScalarVector(s, v),
        self |-> [s |-> self.s, v |-> m2.self],
        q |-> [s |-> q.s, v |-> m1.self]]

Quaternion_mul1(self, q) ==
    LET d == Vector_dot(self.v, q.v)
        s == RSub(RMul(self.s, q.s), d.num)
        m1 == Vector_mults(d.v, self.s)
        m2 == Vector_mults(d.self, q.s)
        c == Vector_cross(m2.self, m1.self)
        sum1 == Vector_add(m1.ret, m2.ret)
        sum2 == Vector_add(sum1.vec, c.vec)
        v == sum2.vec
    IN [ret |-> Quaternion_fromScalarVector(s, v),
        self |-> [s |-> self.s, v |-> c.self],
        q |-> [s |-> q.s, v |-> c.v]]

Quaternion_mul2(self, q) ==
    LET s == RSub(RSub(RSub(RMul(self.s, q.s), RMul(self.v[1], q.v[1])),
                       RMul(self.v[2], q.v[2])), RMul(self.v[3], q.v[3]))
        a == RSub(RAdd(RAdd(RMul(self.s, q.v[1]), RMul(self.v[1], q.s)),
                       RMul(self.v[2], q.v[3])), RMul(self.v[3], q.v[2]))
        b == RAdd(RAdd(RSub(RMul(self.s, q.v[2]), RMul(self.v[1], q.v[3])),
                       RMul(self.v[2], q.s)), RMul(self.v[3], q.v[1]))
        c == RAdd(RSub(RAdd(RMul(self.s, q.v[3]), RMul(self.v[1], q.v[2])),
                       RMul(self.v[2], q.v[1])), RMul(self.v[3], q.s))
    IN [ret |-> Quaternion_init(s, a, b, c), self |-> self, q |-> q]

\* Mutant: the last component with the sign of its second product changed.
Quaternion_mulq_CSign(self, q) ==
    LET s == RSub(RSub(RSub(RMul(self.s, q.s), RMul(self.v[1], q.v[1])),
                       RMul(self.v[2], q.v[2])), RMul(self.v[3], q.v[3]))
        a == RSub(RAdd(RAdd(RMul(self.s, q.v[1]), RMul(self.v[1], q.s)),
                       RMul(self.v[2], q.v[3])), RMul(self.v[3], q.v[2]))
        b == RAdd(RAdd(RSub(RMul(self.s, q.v[2]), RMul(self.v[1], q.v[3])),
                       RMul(self.v[2], q.s)), RMul(self.v[3], q.v[1]))
        c == RAdd(RSub(RSub(RMul(self.s, q.v[3]), RMul(self.v[1], q.v[2])),
                       RMul(self.v[2], q.v[1])), RMul(self.v[3], q.s))
    IN [ret |-> Quaternion_init(s, a, b, c), self |-> self, q |-> q]

Quaternion_mulq(self, q) ==
    LET s == RSub(RSub(RSub(RMul(self.s, q.s), RMul(self.v[1], q.v[1])),
                       RMul(self.v[2], q.v[2])), RMul(self.v[3], q.v[3]))
        a == RSub(RAdd(RAdd(RMul(self.s, q.v[1]), RMul(self.v[1], q.s)),
                       RMul(self.v[2], q.v[3])), RMul(self.v[3], q.v[2]))
        b == RAdd(RAdd(RSub(RMul(self.s, q.v[2]), RMul(self.v[1], q.v[3])),
                       RMul(self.v[2], q.s)), RMul(self.v[3], q.v[1]))
        c == RAdd(RSub(RAdd(RMul(self.s, q.v[3]), RMul(self.v[1], q.v[2])),
                       RMul(self.v[2], q.v[1])), RMul(self.v[3], q.s))
    IN [ret |-> Quaternion_init(s, a, b, c), self |-> self, q |-> q]

(***************************************************************************)
(* Quaternion products of a pair of operands by each of the three          *)
(* implementations, and the product of a product of two units with a       *)
(* third unit.                                                             *)
(***************************************************************************)
QElems == {float(i) : i \in -1..MaxQElem}

Quats == {Quaternion_init(s, a, b, c) : s \in QElems, a \in QElems, b \in QElems, c \in QElems}

Qi == Quaternion_init(float(0), float(1), float(0), float(0))
Qj == Quaternion_init(float(0), float(0), float(1), float(0))
Qk == Quaternion_init(float(0), float(0), float(0), float(1))
Units == {Qi, Qj, Qk}

Algs == {"mul1", "mul2", "mulq"}

NoQuat == [done |-> FALSE, q |-> Quaternion_init(Zero, Zero, Zero, Zero)]

NoProducts == [alg \in Algs |-> NoQuat]

QuatInit ==
    /\ q1 \in Quats
    /\ q2 \in Quats
    /\ qin = [q1 |-> q1, q2 |-> q2, first |-> <<>>, via |-> "none"]
    /\ qres = NoProducts

QuatIdle ==
    /\ q1 = NoQuat.q
    /\ q2 = NoQuat.q
    /\ qin = [q1 |-> NoQuat.q, q2 |-> NoQuat.q, first |-> <<>>, via |-> "none"]
    /\ qres = NoProducts

QApply(alg, r) ==
    /\ qres' = [qres EXCEPT ![alg] = [done |-> TRUE, q |-> r.ret]]
    /\ q1' = r.self
    /\ q2' = r.q
    /\ UNCHANGED qin
    /\ UNCHANGED notQuat

\* q1.mul1(q2)
QMul1 == ~qres["mul1"].done /\ QApply("mul1", Quaternion_mul1(q1, q2))

\* q1.mul2(q2)
QMul2 == ~qres["mul2"].done /\ QApply("mul2", Quaternion_mul2(q1, q2))

\* q1.mulq(q2)
QMulq == ~qres["mulq"].done /\ QApply("mulq", Quaternion_mulq(q1, q2))

\* The product of two units by alg becomes the left operand, a third unit the right one.
QChain(alg, q3) ==
    /\ qin.via = "none" /\ qin.q1 \in Units /\ qin.q2 \in Units
    /\ qres[alg].done
    /\ q1' = qres[alg].q
    /\ q2' = q3
    /\ qin' = [q1 |-> qres[alg].q, q2 |-> q3, first |-> <<qin.q1, qin.q2>>, via |-> alg]
    /\ qres' = NoProducts
    /\ UNCHANGED notQuat

QuatNext ==
    \/ QMul1 \/ QMul2 \/ QMulq
    \/ \E alg \in Algs, q3 \in Units : QChain(alg, q3)

(***************************************************************************)
(* MathUtil.roundsd.  The value is computed in exact decimal arithmetic.   *)
(***************************************************************************)
\* math.floor(math.log10(f)) for f > 0: the p with 10**p <= f < 10**(p+1)
floorlog10(f) ==
    CHOOSE p \in -3..3 : ~RLt(f, RPow10(p)) /\ RLt(f, RPow10(p + 1))

\* Mutant: the digits are validated before the zero shortcut.
MathUtil_roundsd_CheckFirst(f, sigDigits) ==
    IF sigDigits <= 0 \/ sigDigits > 10
    THEN [err |-> "ValueError", ret |-> Zero]
    ELSE IF f = Zero THEN [err |-> "none", ret |-> f]
    ELSE LET negative == RLt(f, Zero)
             fa == RAbs(f)
             power == floorlog10(fa)
             factor == RPow10(power - sigDigits + 1)
             retval == RMul(round0(RDiv(fa, factor)), factor)
         IN [err |-> "none", ret |-> IF negative THEN RMul(retval, float(-1)) ELSE retval]

MathUtil_roundsd(f, sigDigits) ==
    IF f = Zero THEN [err |-> "none", ret |-> f]
    ELSE LET negative == RLt(f, Zero)
             fa == RAbs(f)
         IN IF sigDigits <= 0 \/ sigDigits > 10
            THEN [err |-> "ValueError", ret |-> Zero]
            ELSE LET power == floorlog10(fa)
                     factor == RPow10(power - sigDigits + 1)
                     retval == RMul(round0(RDiv(fa, factor)), factor)
                 IN [err |-> "none",
                     ret |-> IF negative THEN RMul(retval, float(-1)) ELSE retval]

\* Values passed to roundsd: 0, integers, and decimals that need rounding.
RoundsdValues ==
    {Zero, float(1), float(-1), float(2), float(12), float(125), float(-125),
     <<3, 2, 0>>, <<-5, 4, 0>>}

RoundsdDigits == -2..MaxDigits

UtilInit == rsd = [op |-> "none", f |-> Zero, sigDigits |-> 0, err |-> "none", ret |-> Zero]

UtilIdle == UtilInit

\* MathUtil.roundsd(f, sigDigits)
Roundsd(f, sigDigits) ==
    LET r == MathUtil_roundsd(f, sigDigits)
    IN /\ rsd' = [op |-> "roundsd", f |-> f, sigDigits |-> sigDigits,
                  err |-> r.err, ret |-> r.ret]
       /\ UNCHANGED notUtil

UtilNext == \E f \in RoundsdValues, sigDigits \in RoundsdDigits : Roundsd(f, sigDigits)

(***************************************************************************)
(* Matrix.  A Matrix object is the record [mNRows, mNCols, mV] of its      *)
(* fields; mV is the list of row lists.  Indices are the code's 0-based    *)
(* indices; element i of a Python list l is l[i + 1] here.                 *)
(***************************************************************************)
Max(S) == CHOOSE x \in S : \A y \in S : y <= x

\* Mutant: a dimension that is not given defaults to that of the data.
Matrix_init_NoDefault(args, kwargs) ==
    LET nr0 == Len(args)
        nc0 == IF nr0 > 0 THEN Max({Len(args[i]) : i \in 1..nr0}) ELSE 0
        mV0 == list([i \in 1..nr0 |->
                        list([j \in 1..nc0 |->
                                 IF j <= Len(args[i]) THEN args[i][j] ELSE Zero], nc0)],
                    nr0)
        refused == {i \in 1..Len(kwargs) :
                       \/ kwargs[i][1] = "rows" /\ kwargs[i][2][1] < nr0
                       \/ kwargs[i][1] = "cols" /\ kwargs[i][2][1] < nc0
                       \/ kwargs[i][1] \notin {"rows", "cols"}}
        first == CHOOSE i \in refused : \A k \in refused : i <= k
        rows0 == IF \E i \in 1..Len(kwargs) : kwargs[i][1] = "rows"
                 THEN kwargs[CHOOSE i \in 1..Len(kwargs) : kwargs[i][1] = "rows"][2] ELSE None
        cols0 == IF \E i \in 1..Len(kwargs) : kwargs[i][1] = "cols"
                 THEN kwargs[CHOOSE i \in 1..Len(kwargs) : kwargs[i][1] = "cols"][2] ELSE None
        kwrows == IF rows0 = None /\ cols0 # None THEN PyInt(nr0) ELSE rows0
        kwcols == IF kwrows # None /\ cols0 = None THEN PyInt(nc0) ELSE cols0
        nr == IF kwrows # None THEN kwrows[1] ELSE nr0
        nc == IF kwcols # None THEN kwcols[1] ELSE nc0
        mV1 == list([i \in 1..nr |-> IF i <= nr0 THEN mV0[i] ELSE list([j \in 1..nc0 |-> Zero], nc0)],
                    nr)
        mV2 == IF kwcols = None THEN mV1
               ELSE list([i \in 1..nr |-> mV1[i] \o list([j \in 1..(nc - nc0) |-> Zero], nc - nc0)],
                         nr)
    IN IF refused # {}
       THEN [err |-> IF kwargs[first][1] \in {"rows", "cols"} THEN "IndexError" ELSE "KeyError",
             self |-> None]
       ELSE [err |-> "none", self |-> [mNRows |-> nr, mNCols |-> nc, mV |-> mV2]]

\* Mutant: rows= equal to the number of supplied rows is refused too.
Matrix_init_RowsLe(args, kwargs) ==
    LET nr0 == Len(args)
        nc0 == IF nr0 > 0 THEN Max({Len(args[i]) : i \in 1..nr0}) ELSE 0
        mV0 == list([i \in 1..nr0 |->
                        list([j \in 1..nc0 |->
                                 IF j <= Len(args[i]) THEN args[i][j] ELSE Zero], nc0)],
                    nr0)
        refused == {i \in 1..Len(kwargs) :
                       \/ kwargs[i][1] = "rows" /\ kwargs[i][2][1] <= nr0
                       \/ kwargs[i][1] = "cols" /\ kwargs[i][2][1] < nc0
                       \/ kwargs[i][1] \notin {"rows", "cols"}}
        first == CHOOSE i \in refused : \A k \in refused : i <= k
        rows0 == IF \E i \in 1..Len(kwargs) : kwargs[i][1] = "rows"
                 THEN kwargs[CHOOSE i \in 1..Len(kwargs) : kwargs[i][1] = "rows"][2] ELSE None
        cols0 == IF \E i \in 1..Len(kwargs) : kwargs[i][1] = "cols"
                 THEN kwargs[CHOOSE i \in 1..Len(kwargs) : kwargs[i][1] = "cols"][2] ELSE None
        kwrows == IF rows0 = None /\ cols0 # None THEN PyInt(Max({nr0, 1})) ELSE rows0
        kwcols == IF kwrows # None /\ cols0 = None THEN PyInt(Max({nc0, 1})) ELSE cols0
        nr == IF kwrows # None THEN kwrows[1] ELSE nr0
        nc == IF kwcols # None THEN kwcols[1] ELSE nc0
        mV1 == list([i \in 1..nr |-> IF i <= nr0 THEN mV0[i] ELSE list([j \in 1..nc0 |-> Zero], nc0)],
                    nr)
        mV2 == IF kwcols = None THEN mV1
               ELSE list([i \in 1..nr |-> mV1[i] \o list([j \in 1..(nc - nc0) |-> Zero], nc - nc0)],
                         nr)
    IN IF refused # {}
       THEN [err |-> IF kwargs[first][1] \in {"rows", "cols"} THEN "IndexError" ELSE "KeyError",
             self |-> None]
       ELSE [err |-> "none", self |-> [mNRows |-> nr, mNCols |-> nc, mV |-> mV2]]

\* Matrix(*args, **kwargs).  args is a list of rows of numbers (float(f) of a
\* number f is f); kwargs is the list of (keyword, PyInt value) pairs in the
\* order kwargs.iteritems() yields them, each keyword at most once.  The
\* first pair that is refused decides the exception.
Matrix_init(args, kwargs) ==
    LET nr0 == Len(args)
        nc0 == IF nr0 > 0 THEN Max({Len(args[i]) : i \in 1..nr0}) ELSE 0
        mV0 == list([i \in 1..nr0 |->
                        list([j \in 1..nc0 |->
                                 IF j <= Len(args[i]) THEN args[i][j] ELSE Zero], nc0)],
                    nr0)
        refused == {i \in 1..Len(kwargs) :
                       \/ kwargs[i][1] = "rows" /\ kwargs[i][2][1] < nr0
                       \/ kwargs[i][1] = "cols" /\ kwargs[i][2][1] < nc0
                       \/ kwargs[i][1] \notin {"rows", "cols"}}
        first == CHOOSE i \in refused : \A k \in refused : i <= k
        rows0 == IF \E i \in 1..Len(kwargs) : kwargs[i][1] = "rows"
                 THEN kwargs[CHOOSE i \in 1..Len(kwargs) : kwargs[i][1] = "rows"][2] ELSE None
        cols0 == IF \E i \in 1..Len(kwargs) : kwargs[i][1] = "cols"
                 THEN kwargs[CHOOSE i \in 1..Len(kwargs) : kwargs[i][1] = "cols"][2] ELSE None
        kwrows == IF rows0 = None /\ cols0 # None THEN PyInt(Max({nr0, 1})) ELSE rows0
        kwcols == IF kwrows # None /\ cols0 = None THEN PyInt(Max({nc0, 1})) ELSE cols0
        nr == IF kwrows # None THEN kwrows[1] ELSE nr0
        nc == IF kwcols # None THEN kwcols[1] ELSE nc0
        mV1 == list([i \in 1..nr |-> IF i <= nr0 THEN mV0[i] ELSE list([j \in 1..nc0 |-> Zero], nc0)],
                    nr)
        mV2 == IF kwcols = None THEN mV1
               ELSE list([i \in 1..nr |-> mV1[i] \o list([j \in 1..(nc - nc0) |-> Zero], nc - nc0)],
                         nr)
    IN IF refused # {}
       THEN [err |-> IF kwargs[first][1] \in {"rows", "cols"} THEN "IndexError" ELSE "KeyError",
             self |-> None]
       ELSE [err |-> "none", self |-> [mNRows |-> nr, mNCols |-> nc, mV |-> mV2]]

\* Matrix.identity(size)
Matrix_identity(size) ==
    LET m == Matrix_init(<<>>, <<<<"rows", PyInt(size)>>, <<"cols", PyInt(size)>>>>).self
    IN [m EXCEPT !.mV = list([i \in 1..size |-> [m.mV[i] EXCEPT ![i] = One]], size)]

\* Matrix.size()
Matrix_size(self) == <<self.mNRows, self.mNCols>>

\* Matrix.__eq__(m): m is [kind |-> "list", items |-> the nested list] or
\* [kind |-> "Matrix", items |-> the Matrix].  The elements of self are
\* visited row by row; the visit ends at the first element whose partner
\* m[i][j] does not exist (IndexError) or differs (False).
Matrix_eq(self, m) ==
    LET rows == IF m.kind = "list" THEN m.items ELSE m.items.mV
        stops == {p \in UNION {{<<i, j>> : j \in 1..Len(self.mV[i])} : i \in 1..Len(self.mV)} :
                     \/ p[1] > Len(rows)
                     \/ p[2] > Len(rows[p[1]])
                     \/ self.mV[p[1]][p[2]] # rows[p[1]][p[2]]}
        first == CHOOSE p \in stops :
                     \A q \in stops : p[1] < q[1] \/ (p[1] = q[1] /\ p[2] <= q[2])
    IN IF m.kind # "list" /\ Matrix_size(self) # Matrix_size(m.items)
       THEN [err |-> "none", ret |-> FALSE]
       ELSE IF stops = {} THEN [err |-> "none", ret |-> TRUE]
       ELSE IF first[1] > Len(rows) THEN [err |-> "IndexError", ret |-> FALSE]
       ELSE IF first[2] > Len(rows[first[1]]) THEN [err |-> "IndexError", ret |-> FALSE]
       ELSE [err |-> "none", ret |-> FALSE]

\* m[key] = value
Matrix_setitem(self, key, value) ==
    LET r == list_setitem(self.mV, key, value)
    IN [err |-> r.err, self |-> [self EXCEPT !.mV = r.l]]

\* m[i][j] = x: Matrix.__getitem__(i), then the row list's __setitem__(j, x)
Matrix_setelem(self, i, j, x) ==
    LET row == list_getitem(self.mV, i)
        r == list_setitem(row.item, j, x)
    IN IF row.err # "none" THEN [err |-> row.err, self |-> self]
       ELSE IF r.err # "none" THEN [err |-> r.err, self |-> self]
       ELSE [err |-> "none",
             self |-> [self EXCEPT !.mV[(IF i < 0 THEN i + Len(self.mV) ELSE i) + 1] = r.l]]

\* Matrix.scale(scalar)
Matrix_scale(self, scalar) ==
    [err |-> "none",
     self |-> [self EXCEPT !.mV =
                  list([i \in 1..Len(self.mV) |->
                           list([j \in 1..Len(self.mV[i]) |-> RMul(self.mV[i][j], float(scalar))],
                                Len(self.mV[i]))],
                       Len(self.mV))]]

\* Matrix.round(places): the rows are rounded in order, the first mNCols
\* elements of each; a row with fewer elements ends the call with IndexError
\* after its elements, and the rows before it, have been rounded.
Matrix_round(self, places) ==
    LET short == {i \in 1..Len(self.mV) : Len(self.mV[i]) < self.mNCols}
        stop == IF short = {} THEN Len(self.mV) ELSE CHOOSE i \in short : \A k \in short : i <= k
        mV == list([i \in 1..Len(self.mV) |->
                       IF i > stop THEN self.mV[i]
                       ELSE list([j \in 1..Len(self.mV[i]) |->
                                     IF j <= self.mNCols THEN pyround(self.mV[i][j], places)
                                     ELSE self.mV[i][j]],
                                 Len(self.mV[i]))],
                   Len(self.mV))
    IN [err |-> IF short = {} THEN "none" ELSE "IndexError",
        self |-> [self EXCEPT !.mV = mV]]

\* Matrix.transpose(): a new mNCols x mNRows matrix
Matrix_transpose(self) ==
    IF \E i \in 1..self.mNRows : i > Len(self.mV) \/ Len(self.mV[i]) < self.mNCols
    THEN [err |-> "IndexError", ret |-> None, self |-> self]
    ELSE [err |-> "none",
          ret |-> [mNRows |-> self.mNCols, mNCols |-> self.mNRows,
                   mV |-> list([j \in 1..self.mNCols |->
                                   list([i \in 1..self.mNRows |-> self.mV[i][j]], self.mNRows)],
                               self.mNCols)],
          self |-> self]

\* Mutant: the vector's length is compared with the row count.
Matrix_multv_RowCount(self, v) ==
    IF self.mNRows # Len(v)
    THEN [err |-> "TypeError", vec |-> NoVec, self |-> self, v |-> v]
    ELSE IF \E i \in 1..self.mNRows : i > Len(self.mV) \/ Len(self.mV[i]) < self.mNCols
    THEN [err |-> "IndexError", vec |-> NoVec, self |-> self, v |-> v]
    ELSE [err |-> "none",
          vec |-> list([i \in 1..self.mNRows |->
                           RSum(list([j \in 1..self.mNCols |-> RMul(self.mV[i][j], v[j])],
                                     self.mNCols))],
                       self.mNRows),
          self |-> self, v |-> v]

\* Matrix.multv(v): the Vector self * v
Matrix_multv(self, v) ==
    IF self.mNCols # Len(v)
    THEN [err |-> "TypeError", vec |-> NoVec, self |-> self, v |-> v]
    ELSE IF \E i \in 1..self.mNRows : i > Len(self.mV) \/ Len(self.mV[i]) < self.mNCols
    THEN [err |-> "IndexError", vec |-> NoVec, self |-> self, v |-> v]
    ELSE [err |-> "none",
          vec |-> list([i \in 1..self.mNRows |->
                           RSum(list([j \in 1..self.mNCols |-> RMul(self.mV[i][j], v[j])],
                                     self.mNCols))],
                       self.mNRows),
          self |-> self, v |-> v]

\* TINY = 1e-20 of Matrix.ludecomp
TINY == <<1, 1, 1>>

\* self.mV[i][j] and self.mV[i][j] = x, 0-based
at(mV, i, j) == mV[i + 1][j + 1]

put(mV, i, j, x) == [mV EXCEPT ![i + 1][j + 1] = x]

\* csum = mV[i][j], then csum -= mV[i][k] * mV[k][j] for k in range(kn)
RECURSIVE lu_csum(_, _, _, _)
lu_csum(mV, i, j, kn) ==
    IF kn = 0 THEN at(mV, i, j)
    ELSE RSub(lu_csum(mV, i, j, kn - 1), RMul(at(mV, i, kn - 1), at(mV, kn - 1, j)))

\* ludecomp, first loop: the largest absolute value of row i over columns
\* 0..n-1
lu_rowmax(mV, i, n) ==
    LET a == [j \in 1..n |-> RAbs(mV[i + 1][j])]
    IN IF n = 0 THEN Zero ELSE CHOOSE x \in {a[j] : j \in 1..n} : \A j \in 1..n : ~RLt(x, a[j])

\* ludecomp, column j: for i in range(j); the matrix after the rows before row upto
RECURSIVE lu_upper(_, _, _)
lu_upper(mV, j, upto) ==
    IF upto = 0 THEN mV
    ELSE LET m == lu_upper(mV, j, upto - 1)
         IN put(m, upto - 1, j, lu_csum(m, upto - 1, j, upto - 1))

\* ludecomp, column j: for i in range(j, n); the state after the rows before row upto
RECURSIVE lu_lower(_, _, _)
lu_lower(st, j, upto) ==
    IF upto = j THEN [st EXCEPT !.big = Zero]
    ELSE LET s == lu_lower(st, j, upto - 1)
             i == upto - 1
             csum == lu_csum(s.mV, i, j, j)
             dum == RMul(s.vv[i + 1], RAbs(csum))
         IN IF ~RLt(dum, s.big)
            THEN [s EXCEPT !.mV = put(s.mV, i, j, csum), !.big = dum, !.imax = i]
            ELSE [s EXCEPT !.mV = put(s.mV, i, j, csum)]

\* The interchange without d = -d
lu_swap_KeepSign(st, j, n) ==
    IF j = st.imax THEN st
    ELSE LET rj == st.mV[j + 1]
             ri == st.mV[st.imax + 1]
         IN [st EXCEPT
                !.mV[st.imax + 1] = list([k \in 1..Len(ri) |-> IF k <= n THEN rj[k] ELSE ri[k]], Len(ri)),
                !.mV[j + 1] = list([k \in 1..Len(rj) |-> IF k <= n THEN ri[k] ELSE rj[k]], Len(rj)),
                !.vv[st.imax + 1] = st.vv[j + 1]]

\* ludecomp, column j: the interchange of rows imax and j (columns 0..n-1)
lu_swap(st, j, n) ==
    IF j = st.imax THEN st
    ELSE LET rj == st.mV[j + 1]
             ri == st.mV[st.imax + 1]
         IN [st EXCEPT
                !.mV[st.imax + 1] = list([k \in 1..Len(ri) |-> IF k <= n THEN rj[k] ELSE ri[k]], Len(ri)),
                !.mV[j + 1] = list([k \in 1..Len(rj) |-> IF k <= n THEN ri[k] ELSE rj[k]], Len(rj)),
                !.d = RNeg(st.d),
                !.vv[st.imax + 1] = st.vv[j + 1]]

\* Column j without the division of the rows below by the pivot
lu_pivot_NoDivide(st, j, n) ==
    LET s1 == [st EXCEPT !.index[j + 1] = st.imax]
    IN IF at(s1.mV, j, j) = Zero THEN [s1 EXCEPT !.mV = put(s1.mV, j, j, TINY)] ELSE s1

\* ludecomp, column j: index[j], the TINY pivot, the division by the pivot
lu_pivot(st, j, n) ==
    LET s1 == [st EXCEPT !.index[j + 1] = st.imax]
        s2 == IF at(s1.mV, j, j) = Zero THEN [s1 EXCEPT !.mV = put(s1.mV, j, j, TINY)] ELSE s1
        dum == RDiv(One, at(s2.mV, j, j))
    IN [s2 EXCEPT !.mV = list([r \in 1..Len(s2.mV) |->
                                  IF r - 1 > j /\ r - 1 < n
                                  THEN [s2.mV[r] EXCEPT ![j + 1] = RMul(s2.mV[r][j + 1], dum)]
                                  ELSE s2.mV[r]],
                              Len(s2.mV))]

\* ludecomp, second loop: for j in range(n); the state after the columns before jn
RECURSIVE lu_cols(_, _, _)
lu_cols(st, jn, n) ==
    IF jn = 0 THEN st
    ELSE LET s0 == lu_cols(st, jn - 1, n)
             j == jn - 1
             s1 == [s0 EXCEPT !.mV = lu_upper(s0.mV, j, j)]
             s2 == lu_lower(s1, j, n)
         IN lu_pivot(lu_swap(s2, j, n), j, n)

\* ludecomp raising the singular-matrix error for a zero pivot as well,
\* where the code substitutes TINY
Matrix_ludecomp_ZeroPivotRaises(self) ==
    LET n == self.mNRows
        short == {i \in 0..(n - 1) : i + 1 > Len(self.mV) \/ Len(self.mV[i + 1]) < n}
        zero == {i \in (0..(n - 1)) \ short : lu_rowmax(self.mV, i, n) = Zero}
        bad == short \cup zero
        vv == [i \in 1..n |-> lu_rowmax(self.mV, i - 1, n)]
        st == lu_cols([mV |-> self.mV, vv |-> list(vv, n), index |-> [i \in 1..n |-> 0],
                       d |-> One, imax |-> -1, big |-> Zero], n, n)
    IN IF bad # {}
       THEN [err |-> IF (CHOOSE i \in bad : \A k \in bad : i <= k) \in short
                     THEN "IndexError" ELSE "ValueError",
             index |-> <<>>, d |-> Zero, self |-> self]
       ELSE IF \E i \in 1..n : st.mV[i][i] = TINY
       THEN [err |-> "ValueError", index |-> <<>>, d |-> Zero, self |-> self]
       ELSE [err |-> "none", index |-> st.index, d |-> st.d,
             self |-> [self EXCEPT !.mV = st.mV]]

\* Matrix.ludecomp(): returns (index, d), self overwritten with the factors
Matrix_ludecomp(self) ==
    LET n == self.mNRows
        short == {i \in 0..(n - 1) : i + 1 > Len(self.mV) \/ Len(self.mV[i + 1]) < n}
        zero == {i \in (0..(n - 1)) \ short : lu_rowmax(self.mV, i, n) = Zero}
        bad == short \cup zero
        vv == [i \in 1..n |-> lu_rowmax(self.mV, i - 1, n)]
        st == lu_cols([mV |-> self.mV, vv |-> list(vv, n), index |-> [i \in 1..n |-> 0],
                       d |-> One, imax |-> -1, big |-> Zero], n, n)
    IN IF bad # {}
       THEN [err |-> IF (CHOOSE i \in bad : \A k \in bad : i <= k) \in short
                     THEN "IndexError" ELSE "ValueError",
             index |-> <<>>, d |-> Zero, self |-> self]
       ELSE [err |-> "none", index |-> st.index, d |-> st.d,
             self |-> [self EXCEPT !.mV = st.mV]]

\* lubacksub, inner loops: sum -= mV[i][j] * b[j] for j in range(lo, hi)
RECURSIVE lub_sum(_, _, _, _, _, _)
lub_sum(mV, b, i, lo, hi, sum) ==
    IF hi <= lo THEN sum
    ELSE RSub(lub_sum(mV, b, i, lo, hi - 1, sum), RMul(at(mV, i, hi - 1), b[hi]))

\* lubacksub, first loop: for i in range(n); the state after the rows before row upto
RECURSIVE lub_forward(_, _, _, _)
lub_forward(mV, index, b, upto) ==
    IF upto = 0 THEN [b |-> b, ii |-> 0]
    ELSE LET s == lub_forward(mV, index, b, upto - 1)
             i == upto - 1
             ip == index[i + 1]
             sum0 == s.b[ip + 1]
             b1 == [s.b EXCEPT ![ip + 1] = s.b[i + 1]]
             sum == IF s.ii # 0 THEN lub_sum(mV, b1, i, s.ii, i, sum0) ELSE sum0
             ii == IF s.ii # 0 THEN s.ii ELSE IF sum0 # Zero THEN i ELSE s.ii
         IN [b |-> [b1 EXCEPT ![i + 1] = sum], ii |-> ii]

\* lubacksub, second loop: for i in range(n-1, -1, -1); b after the rows from upto down
RECURSIVE lub_back(_, _, _, _)
lub_back(mV, b, upto, n) ==
    IF upto = n THEN b
    ELSE LET b1 == lub_back(mV, b, upto + 1, n)
             sum == lub_sum(mV, b1, upto, upto + 1, n, b1[upto + 1])
         IN [b1 EXCEPT ![upto + 1] = RDiv(sum, at(mV, upto, upto))]

\* Matrix.lubacksub(index, b): b is overwritten with x and returned; ret is
\* the object returned, "b" for the argument itself.
Matrix_lubacksub(self, index, b) ==
    LET n == self.mNRows
        f == lub_forward(self.mV, index, b, n)
        zero == {i \in 0..(n - 1) : at(self.mV, i, i) = Zero}
        stop == IF zero = {} THEN 0 ELSE Max(zero) + 1
    IN [err |-> IF zero = {} THEN "none" ELSE "ZeroDivisionError",
        b |-> lub_back(self.mV, f.b, stop, n), ret |-> "b", self |-> self]

(***************************************************************************)
(* A Matrix object under construction and its public mutators.             *)
(***************************************************************************)
\* Elements: small integers, and one that round() changes.
Half == <<1, 2, 0>>

MatrixElems == {float(x) : x \in 0..MaxElem} \cup {Half}

\* Rows passed to the constructor and assigned with m[i] = row.
RowsUpTo(n) == UNION {[1..k -> MatrixElems] : k \in 0..n}

MatrixArgs == UNION {[1..k -> RowsUpTo(MaxDim)] : k \in 0..MaxDim}

\* Keyword lists over the keywords keys and the dimensions dims, in every
\* order of iteration; "foo" is a keyword Matrix does not support.
KwargsOver(keys, dims) ==
    {kw \in UNION {[1..n -> keys \X {PyInt(d) : d \in dims}] : n \in 0..Cardinality(keys)} :
        /\ \A i, j \in 1..Len(kw) : i # j => kw[i][1] # kw[j][1]
        /\ \A i \in 1..Len(kw) : kw[i][1] = "foo" => kw[i][2] = PyInt(1)}

MatrixKwargs ==
    KwargsOver({"rows", "cols"}, 1..MaxDim) \cup {<<<<"foo", PyInt(1)>>>>}

MatrixInit ==
    /\ mat = [live |-> FALSE, mNRows |-> 0, mNCols |-> 0, mV |-> <<>>]
    /\ mcall = [op |-> "none", err |-> "none", n |-> 0]

MatrixIdle == MatrixInit

\* A call on the live object: the fields as the call leaves them, its error.
MatrixCall(op, r) ==
    /\ mcall.n < MaxCalls
    /\ mat' = [live |-> TRUE, mNRows |-> r.self.mNRows, mNCols |-> r.self.mNCols,
               mV |-> r.self.mV]
    /\ mcall' = [op |-> op, err |-> r.err, n |-> mcall.n + 1]
    /\ UNCHANGED notMatrix

\* mat = Matrix(*args, **kwargs)
MatrixNew(args, kwargs) ==
    LET r == Matrix_init(args, kwargs)
    IN /\ ~mat.live
       /\ mat' = IF r.err = "none"
                 THEN [live |-> TRUE, mNRows |-> r.self.mNRows, mNCols |-> r.self.mNCols,
                       mV |-> r.self.mV]
                 ELSE mat
       /\ mcall' = [op |-> "init", err |-> r.err, n |-> 0]
       /\ UNCHANGED notMatrix

\* mat[key] = row
MatrixSetRow(key, row) ==
    mat.live /\ MatrixCall("setrow", Matrix_setitem(mat, key, row))

\* mat[i][j] = x
MatrixSetElem(i, j, x) == mat.live /\ MatrixCall("setelem", Matrix_setelem(mat, i, j, x))

\* mat.scale(scalar)
MatrixScale(scalar) == mat.live /\ MatrixCall("scale", Matrix_scale(mat, scalar))

\* mat.round(places)
MatrixRound(places) == mat.live /\ MatrixCall("round", Matrix_round(mat, places))

\* mat.ludecomp()
MatrixLudecomp == mat.live /\ MatrixCall("ludecomp", Matrix_ludecomp(mat))

MatrixNext ==
    \/ \E args \in MatrixArgs, kwargs \in MatrixKwargs : MatrixNew(args, kwargs)
    \/ \E key \in -1..MaxDim, row \in RowsUpTo(MaxDim + 1) : MatrixSetRow(key, row)
    \/ \E i, j \in -1..MaxDim, x \in MatrixElems : MatrixSetElem(i, j, x)
    \/ \E scalar \in {-1, 2} : MatrixScale(scalar)
    \/ \E places \in 0..1 : MatrixRound(places)
    \/ MatrixLudecomp

\* Matrix.clone(): Matrix(*rows) of copies of the rows
Matrix_clone(self) ==
    LET nr == Len(self.mV)
        nc == IF nr > 0 THEN Max({Len(self.mV[i]) : i \in 1..nr}) ELSE 0
    IN [mNRows |-> nr, mNCols |-> nc,
        mV |-> list([i \in 1..nr |->
                        list([j \in 1..nc |-> IF j <= Len(self.mV[i]) THEN self.mV[i][j] ELSE Zero],
                             nc)],
                    nr)]

(***************************************************************************)
(* A linear system solved with ludecomp and lubacksub, as in               *)
(* MatrixTest.testludecomp: A is cloned, the clone is decomposed, and      *)
(* lubacksub is given the index array and the right-hand side b.           *)
(***************************************************************************)
SquareMatrices ==
    UNION {{Matrix_init(rows, <<>>).self :
               rows \in [1..n -> [1..n -> {float(x) : x \in -MaxElem..MaxElem}]]} :
              n \in 1..MaxDim}

\* 2 x 2 matrices whose rows differ in their largest element, and matrices
\* of zeros and ones one size larger than MaxDim, where column after column
\* can need an interchange
PivotMatrices ==
    {Matrix_init(rows, <<>>).self : rows \in [1..2 -> [1..2 -> {float(x) : x \in 0..MaxPivot}]]}

BitMatrices ==
    {Matrix_init(rows, <<>>).self :
        rows \in [1..(MaxDim + 1) -> [1..(MaxDim + 1) -> {Zero, One}]]}

LUInit ==
    \E A \in SquareMatrices \cup PivotMatrices \cup BitMatrices :
      \E b \in [1..A.mNRows -> -MaxElem..MaxElem] :
        lu = [phase |-> "new", A |-> A, m |-> None, index |-> <<>>, d |-> Zero,
              b0 |-> [i \in 1..A.mNRows |-> float(b[i])],
              b |-> [i \in 1..A.mNRows |-> float(b[i])], x |-> None, err |-> "none"]

LUIdle == lu = <<>>

\* m = A.clone()
LUClone ==
    /\ lu.phase = "new"
    /\ lu' = [lu EXCEPT !.phase = "cloned", !.m = Matrix_clone(lu.A)]
    /\ UNCHANGED notLU

\* (index, d) = m.ludecomp()
LUDecomp ==
    LET r == Matrix_ludecomp(lu.m)
    IN /\ lu.phase = "cloned"
       /\ lu' = [lu EXCEPT !.phase = IF r.err = "none" THEN "decomposed" ELSE "failed",
                           !.m = r.self, !.index = r.index, !.d = r.d, !.err = r.err]
       /\ UNCHANGED notLU

\* x = m.lubacksub(index, b)
LUBackSub ==
    LET r == Matrix_lubacksub(lu.m, lu.index, lu.b)
    IN /\ lu.phase = "decomposed"
       /\ lu' = [lu EXCEPT !.phase = "solved", !.m = r.self, !.b = r.b,
                           !.x = IF r.err = "none" THEN r.b ELSE None, !.err = r.err]
       /\ UNCHANGED notLU

LUNext == LUClone \/ LUDecomp \/ LUBackSub

(***************************************************************************)
(* CoordinateSys.  Matrix objects live in heap, a function from object     *)
(* identities to Matrix records, because setBasis stores and getBasis      *)
(* returns a reference: the caller and the CoordinateSys then share one    *)
(* object.  A CoordinateSys is the record [mParent, mBasis,                *)
(* mBasisTranspose, mOrigin]; mBasis is an identity, mBasisTranspose is    *)
(* None or Ref(m) of                                                       *)
(* the Matrix m that transpose() returned (an object nobody else refers    *)
(* to).  A reference that may be None is None or Ref(identity).            *)
(***************************************************************************)
Ref(x) == <<x>>

\* Identities: the caller's own Matrix, and the matrices that setBasis(None)
\* creates (two suffice: at most one of them is still referred to, through
\* held, when the next one is created).
CallerId == 1

IdentityIds == {2, 3}

\* setBasis without its last statement: the cached transpose is kept
CoordinateSys_setBasis_KeepCache(self, hp, basis, fresh) ==
    IF basis # None
    THEN [self |-> [self EXCEPT !.mBasis = basis[1]], heap |-> hp]
    ELSE [self |-> [self EXCEPT !.mBasis = fresh],
          heap |-> [hp EXCEPT ![fresh] = Ref(Matrix_identity(3))]]

\* CoordinateSys.setBasis(basis): basis is None or a reference to a Matrix;
\* fresh is the identity of the Matrix that Matrix.identity(3) creates.
CoordinateSys_setBasis(self, hp, basis, fresh) ==
    IF basis # None
    THEN [self |-> [self EXCEPT !.mBasis = basis[1], !.mBasisTranspose = None], heap |-> hp]
    ELSE [self |-> [self EXCEPT !.mBasis = fresh, !.mBasisTranspose = None],
          heap |-> [hp EXCEPT ![fresh] = Ref(Matrix_identity(3))]]

\* CoordinateSys.getBasis()
CoordinateSys_getBasis(self) == self.mBasis

\* CoordinateSys.setOrigin(origin)
CoordinateSys_setOrigin(self, origin) ==
    [self EXCEPT !.mOrigin = IF origin # None THEN origin ELSE Vector3(Zero, Zero, Zero)]

\* CoordinateSys objects compared and linked: objs[id] is the CoordinateSys
\* object id, its mParent None or a reference Ref(id), its mBasis and mOrigin
\* None (as __init__ starts them) or Ref(value).
\* a == b of two CoordinateSys objects: parent, basis and origin compared in
\* this order, the parents by == again.  "RuntimeError" is the recursion that
\* never returns (a pair met again while it is being compared), which Python
\* ends at its recursion limit.
RECURSIVE CoordinateSys_eq(_, _, _, _)
CoordinateSys_eq(objs, a, b, pending) ==
    LET pa == objs[a].mParent
        pb == objs[b].mParent
        parents == IF pa = None /\ pb = None THEN "True"
                   ELSE IF pa = None \/ pb = None THEN "False"
                   ELSE IF <<pa[1], pb[1]>> \in pending \cup {<<a, b>>} THEN "RuntimeError"
                   ELSE CoordinateSys_eq(objs, pa[1], pb[1], pending \cup {<<a, b>>})
    IN IF parents # "True" THEN parents
       ELSE IF objs[a].mBasis # objs[b].mBasis THEN "False"
       ELSE IF objs[a].mOrigin # objs[b].mOrigin THEN "False"
       ELSE "True"

\* self.setParent(parent), parent None or Ref(id)
CoordinateSys_setParent(objs, self, parent) ==
    LET same == IF parent = None THEN "False" ELSE CoordinateSys_eq(objs, parent[1], self, {})
    IN IF same = "RuntimeError" THEN [err |-> "RuntimeError", objs |-> objs]
       ELSE IF same = "True"
       THEN [err |-> "ValueError", objs |-> [objs EXCEPT ![self].mParent = None]]
       ELSE [err |-> "none", objs |-> [objs EXCEPT ![self].mParent = parent]]

\* transformToParentSystem with the basis itself in place of its transpose
CoordinateSys_transformToParentSystem_NoTranspose(self, hp, v) ==
    LET p == Matrix_multv(hp[self.mBasis][1], v)
        s == Vector_add(p.vec, self.mOrigin)
    IN IF p.err # "none"
       THEN [err |-> p.err, ret |-> NoVec, self |-> self, v |-> v,
             basis |-> hp[self.mBasis][1], origin |-> self.mOrigin]
       ELSE [err |-> s.err, ret |-> s.vec, self |-> self, v |-> p.v, basis |-> p.self,
             origin |-> s.v]

\* CoordinateSys.transformToParentSystem(vec): the exception, the Vector
\* returned, and self, vec, the basis Matrix and the origin as the call
\* leaves them
CoordinateSys_transformToParentSystem(self, hp, v) ==
    LET t == IF self.mBasisTranspose = None
             THEN Matrix_transpose(hp[self.mBasis][1])
             ELSE [err |-> "none", ret |-> self.mBasisTranspose[1], self |-> hp[self.mBasis][1]]
        self1 == [self EXCEPT !.mBasisTranspose = Ref(t.ret)]
        p == Matrix_multv(t.ret, v)
        s == Vector_add(p.vec, self.mOrigin)
    IN IF t.err # "none"
       THEN [err |-> t.err, ret |-> NoVec, self |-> self, v |-> v, basis |-> t.self,
             origin |-> self.mOrigin]
       ELSE IF p.err # "none"
       THEN [err |-> p.err, ret |-> NoVec, self |-> self1, v |-> p.v, basis |-> t.self,
             origin |-> self.mOrigin]
       ELSE [err |-> s.err, ret |-> s.vec, self |-> self1, v |-> p.v, basis |-> t.self,
             origin |-> s.v]

\* CoordinateSys.transformFromParentSystem(vec)
CoordinateSys_transformFromParentSystem(self, hp, v) ==
    LET d == Vector_sub(v, self.mOrigin)
        p == Matrix_multv(hp[self.mBasis][1], d.vec)
    IN IF d.err # "none"
       THEN [err |-> d.err, ret |-> NoVec, self |-> self, v |-> d.self,
             basis |-> hp[self.mBasis][1], origin |-> d.v]
       ELSE [err |-> p.err, ret |-> p.vec, self |-> self, v |-> d.self, basis |-> p.self,
             origin |-> d.v]

\* Bases the caller builds: the rows of CoordinateSysTest.testConstructors,
\* one of them with an element that round() changes.
BasisInputs ==
    {Matrix_init(<<<<Zero, One, Zero>>, <<Zero, Zero, x>>, <<One, Zero, Zero>>>>, <<>>).self :
        x \in {One, Half}}

OriginInputs == {None, Vector3(float(1), float(2), float(3))}

TransformInputs == {Vector3(One, Zero, Zero), Vector3(float(1), float(2), float(3))}

NoTransform ==
    [op |-> "none", v |-> NoVec, basis |-> None, origin |-> NoVec, err |-> "none",
     ret |-> NoVec, n |-> 0]

\* The state after basis1 = Matrix(...); c = CoordinateSys(name, basis=..., origin=...)
CoordSysInit ==
    \E m \in BasisInputs, basis \in {None, Ref(CallerId)}, origin \in OriginInputs :
        LET hp0 == [id \in {CallerId} \cup IdentityIds |-> IF id = CallerId THEN Ref(m) ELSE None]
            r == CoordinateSys_setBasis([mParent |-> None, mBasis |-> 0, mBasisTranspose |-> None,
                                         mOrigin |-> NoVec],
                                        hp0, basis, 2)
        IN /\ heap = r.heap
           /\ cs = CoordinateSys_setOrigin(r.self, origin)
           /\ held = None
           /\ cscall = NoTransform

CoordSysIdle == heap = <<>> /\ cs = <<>> /\ held = <<>> /\ cscall = <<>>

\* The Matrix objects the caller can reach: its own and the one from getBasis.
Reachable == {CallerId} \cup (IF held = None THEN {} ELSE {held[1]})

\* Python frees an object when the last reference to it goes: a Matrix made
\* by setBasis(None) lives while c.mBasis or held refers to it.
collect(hp, c, h) ==
    [id \in DOMAIN hp |->
        IF id \in IdentityIds /\ id # c.mBasis /\ h # Ref(id) THEN None ELSE hp[id]]

\* c.setBasis(basis)
CSSetBasis(basis) ==
    LET fresh == CHOOSE id \in IdentityIds : held # Ref(id)
        r == CoordinateSys_setBasis(cs, heap, basis, fresh)
    IN /\ IF basis = None THEN TRUE ELSE basis[1] \in Reachable
       /\ cs' = r.self
       /\ heap' = collect(r.heap, r.self, held)
       /\ UNCHANGED <<held, cscall>>
       /\ UNCHANGED notCoordSys

\* held = c.getBasis()
CSGetBasis ==
    /\ held' = Ref(CoordinateSys_getBasis(cs))
    /\ held' # held
    /\ heap' = collect(heap, cs, held')
    /\ UNCHANGED <<cs, cscall>>
    /\ UNCHANGED notCoordSys

\* c.setOrigin(origin)
CSSetOrigin(origin) ==
    /\ cs' = CoordinateSys_setOrigin(cs, origin)
    /\ UNCHANGED <<heap, held, cscall>>
    /\ UNCHANGED notCoordSys

\* p = CoordinateSys('p'), the system the caller passes as parent: object 2
\* of the pair <<c, p>>
ParentSys ==
    [mParent |-> None, mBasis |-> Ref(Matrix_identity(3)),
     mOrigin |-> Ref(Vector3(Zero, Zero, Zero))]

\* c.setParent(parent), parent None or p; the exception of a refused call is
\* caught by the caller
CSSetParent(parent) ==
    LET objs == <<[mParent |-> cs.mParent, mBasis |-> heap[cs.mBasis],
                   mOrigin |-> Ref(cs.mOrigin)], ParentSys>>
        r == CoordinateSys_setParent(objs, 1, parent)
    IN /\ cs' = [cs EXCEPT !.mParent = r.objs[1].mParent]
       /\ UNCHANGED <<heap, held, cscall>>
       /\ UNCHANGED notCoordSys

\* A change in place of the Matrix id, which the caller holds a reference to.
BasisChange(id, r) ==
    /\ id \in Reachable
    /\ cscall.n < MaxCalls
    /\ heap' = [heap EXCEPT ![id] = Ref(r.self)]
    /\ cscall' = [cscall EXCEPT !.n = cscall.n + 1]
    /\ UNCHANGED <<cs, held>>
    /\ UNCHANGED notCoordSys

\* m[i][j] = x
BasisSetElem(id, i, j, x) ==
    heap[id] # None /\ BasisChange(id, Matrix_setelem(heap[id][1], i, j, float(x)))

\* m.scale(scalar)
BasisScale(id, scalar) ==
    heap[id] # None /\ BasisChange(id, Matrix_scale(heap[id][1], scalar))

\* m.round(places)
BasisRound(id, places) ==
    heap[id] # None /\ BasisChange(id, Matrix_round(heap[id][1], places))

\* c.transformToParentSystem(v)
CSTransformToParent(v) ==
    LET r == CoordinateSys_transformToParentSystem(cs, heap, v)
    IN /\ cs' = r.self
       /\ cscall' = [op |-> "toParent", v |-> v, basis |-> heap[cs.mBasis], origin |-> cs.mOrigin,
                     err |-> r.err, ret |-> r.ret, n |-> cscall.n]
       /\ UNCHANGED <<heap, held>>
       /\ UNCHANGED notCoordSys

\* c.transformFromParentSystem(v)
CSTransformFromParent(v) ==
    LET r == CoordinateSys_transformFromParentSystem(cs, heap, v)
    IN /\ cs' = r.self
       /\ cscall' = [op |-> "fromParent", v |-> v, basis |-> heap[cs.mBasis], origin |-> cs.mOrigin,
                     err |-> r.err, ret |-> r.ret, n |-> cscall.n]
       /\ UNCHANGED <<heap, held>>
       /\ UNCHANGED notCoordSys

CoordSysNext ==
    \/ \E basis \in {None} \cup {Ref(id) : id \in {CallerId} \cup IdentityIds} : CSSetBasis(basis)
    \/ CSGetBasis
    \/ \E origin \in OriginInputs : CSSetOrigin(origin)
    \/ \E parent \in {None, Ref(2)} : CSSetParent(parent)
    \/ \E id \in {CallerId} \cup IdentityIds, i, j \in {0, -1}, x \in 0..MaxElem :
          BasisSetElem(id, i, j, x)
    \/ \E id \in {CallerId} \cup IdentityIds : BasisScale(id, 2)
    \/ \E id \in {CallerId} \cup IdentityIds, places \in 0..1 : BasisRound(id, places)
    \/ \E v \in TransformInputs : CSTransformToParent(v)
    \/ \E v \in TransformInputs : CSTransformFromParent(v)

(***************************************************************************)
(* Single calls on Matrix: the constructor and the queries, each recorded  *)
(* with the arguments as passed, the exception and the value returned.     *)
(***************************************************************************)
NoMatrix == [mNRows |-> 0, mNCols |-> 0, mV |-> <<>>]

NoMatOp ==
    [op |-> "none", args |-> <<>>, kwargs |-> <<>>, m |-> NoMatrix, v |-> NoVec,
     err |-> "none", self |-> NoMatrix, vpost |-> NoVec, ret |-> NoVec]

\* Keyword lists of the single constructor calls: rows/cols from 0 up to one
\* more than the data can need, with or without an unsupported keyword.
CtorKwargsAll == KwargsOver({"rows", "cols", "foo"}, 0..(MaxDim + 1))

\* Matrices and vectors handed to multv
MultvMatrices == {Matrix_init(args, <<>>).self : args \in MatrixArgs}

MultvVectors == RowsUpTo(MaxDim + 1)

MatOpsInit == mop = NoMatOp

MatOpsIdle == mop = <<>>

\* m = Matrix(*args, **kwargs)
MatCtor ==
    /\ mop.op = "none"
    /\ \E args \in MatrixArgs, kwargs \in CtorKwargsAll :
          LET r == Matrix_init(args, kwargs)
          IN mop' = [NoMatOp EXCEPT !.op = "init", !.args = args, !.kwargs = kwargs,
                                    !.err = r.err, !.self = r.self]
    /\ UNCHANGED notMatOps

\* ret = m.multv(v)
MatMultv ==
    /\ mop.op = "none"
    /\ \E m \in MultvMatrices, v \in MultvVectors :
          LET r == Matrix_multv(m, v)
          IN mop' = [NoMatOp EXCEPT !.op = "multv", !.m = m, !.v = v, !.err = r.err,
                                    !.self = r.self, !.vpost = r.v, !.ret = r.vec]
    /\ UNCHANGED notMatOps

\* ret = Matrix.identity(size).multv(v)
MatIdentityMultv ==
    /\ mop.op = "none"
    /\ \E size \in 1..(MaxDim + 1), v \in MultvVectors :
          LET r == Matrix_multv(Matrix_identity(size), v)
          IN mop' = [NoMatOp EXCEPT !.op = "identity.multv", !.args = <<size>>, !.v = v,
                                    !.err = r.err, !.self = r.self, !.vpost = r.v,
                                    !.ret = r.vec]
    /\ UNCHANGED notMatOps

\* Matrices of zeros and ones and the nested lists they are compared with:
\* up to one row and one column more than a matrix has
EqRows(n) == UNION {[1..k -> {Zero, One}] : k \in 0..n}

EqLists == UNION {[1..k -> EqRows(MaxDim + 1)] : k \in 0..(MaxDim + 1)}

\* ret = (Matrix(*args) == l), ret = (Matrix(*args) == Matrix(*args2))
MatEq ==
    /\ mop.op = "none"
    /\ \E args \in UNION {[1..k -> EqRows(MaxDim)] : k \in 0..MaxDim} :
          LET m == Matrix_init(args, <<>>).self
          IN \E l \in EqLists, kind \in {"list", "Matrix"} :
                LET other == IF kind = "list" THEN [kind |-> kind, items |-> l]
                             ELSE [kind |-> kind, items |-> Matrix_init(l, <<>>).self]
                    r == Matrix_eq(m, other)
                IN /\ kind = "Matrix" => Len(l) <= MaxDim
                   /\ mop' = [NoMatOp EXCEPT !.op = "eq", !.args = <<kind>>, !.m = m,
                                             !.v = other.items, !.err = r.err,
                                             !.ret = r.ret]
    /\ UNCHANGED notMatOps

MatOpsNext == MatCtor \/ MatMultv \/ MatIdentityMultv \/ MatEq

(***************************************************************************)
(* Matrix.getRow and Matrix.getColumn, with the lists held by identity:    *)
(* rc.lists[id] is the content of the list object id, the matrix's mV      *)
(* names its row lists, and a Vector is the id of its mV list.  The row    *)
(* lists have the ids 1..mNRows; the list of the Vector returned last has  *)
(* the next id (a list nothing refers to any more is dropped).             *)
(***************************************************************************)
\* Mutant: the Vector is built over the row list itself.
Matrix_getRow_Shared(self, lists, index) ==
    IF index < 0 \/ index >= self.mNRows
    THEN [err |-> "IndexError", lists |-> lists, vec |-> None]
    ELSE [err |-> "none", lists |-> SubSeq(lists, 1, Len(self.mV)),
          vec |-> PyInt(self.mV[index + 1])]

\* Matrix.getRow(index): Vector.fromSequence builds a list of its own
Matrix_getRow(self, lists, index) ==
    IF index < 0 \/ index >= self.mNRows
    THEN [err |-> "IndexError", lists |-> lists, vec |-> None]
    ELSE [err |-> "none",
          lists |-> SubSeq(lists, 1, Len(self.mV))
                        \o <<Vector_fromSequence(lists[self.mV[index + 1]])>>,
          vec |-> PyInt(Len(self.mV) + 1)]

\* Matrix.getColumn(index)
Matrix_getColumn(self, lists, index) ==
    IF index < 0 \/ index >= self.mNCols
    THEN [err |-> "IndexError", lists |-> lists, vec |-> None]
    ELSE [err |-> "none",
          lists |-> SubSeq(lists, 1, Len(self.mV))
                        \o <<Vector_fromSequence(
                                 list([i \in 1..self.mNRows |-> lists[self.mV[i]][index + 1]],
                                      self.mNRows))>>,
          vec |-> PyInt(Len(self.mV) + 1)]

\* Before the matrix is built.  pre holds the lists as they were before the
\* last call, index its argument.
RowColInit ==
    rc = [live |-> FALSE, lists |-> <<>>, m |-> NoMatrix, vec |-> None,
          op |-> "none", index |-> 0, err |-> "none", pre |-> <<>>]

RowColIdle == rc = <<>>

\* m = Matrix(*args)
RowColNew ==
    /\ ~rc.live
    /\ \E args \in MatrixArgs :
          LET m == Matrix_init(args, <<>>).self
          IN rc' = [rc EXCEPT !.live = TRUE, !.lists = m.mV,
                              !.m = [m EXCEPT !.mV = list([i \in 1..m.mNRows |-> i], m.mNRows)]]
    /\ UNCHANGED notRowCol

\* vec = m.getRow(index); the caller's vec stays what it was when the call raises
RowColGetRow ==
    /\ rc.live
    /\ \E index \in -1..MaxDim :
          LET r == Matrix_getRow(rc.m, rc.lists, index)
          IN rc' = [rc EXCEPT !.op = "getRow", !.index = index, !.err = r.err,
                              !.pre = rc.lists, !.lists = r.lists,
                              !.vec = IF r.err = "none" THEN r.vec ELSE rc.vec]
    /\ UNCHANGED notRowCol

\* vec = m.getColumn(index)
RowColGetColumn ==
    /\ rc.live
    /\ \E index \in -1..MaxDim :
          LET r == Matrix_getColumn(rc.m, rc.lists, index)
          IN rc' = [rc EXCEPT !.op = "getColumn", !.index = index, !.err = r.err,
                              !.pre = rc.lists, !.lists = r.lists,
                              !.vec = IF r.err = "none" THEN r.vec ELSE rc.vec]
    /\ UNCHANGED notRowCol

\* vec[key] = value on the returned Vector (Vector.__setitem__)
RowColVecSet ==
    /\ rc.live /\ rc.vec # None
    /\ \E key \in 0..(MaxDim - 1), value \in MatrixElems :
          LET r == list_setitem(rc.lists[rc.vec[1]], key, value)
          IN /\ r.err = "none"
             /\ rc' = [rc EXCEPT !.op = "vec.setitem", !.index = key, !.err = r.err,
                                 !.pre = rc.lists, !.lists[rc.vec[1]] = r.l]
    /\ UNCHANGED notRowCol

\* m[i][j] = value on the matrix (Matrix.__getitem__, then the row list's
\* __setitem__)
RowColMatSet ==
    /\ rc.live
    /\ \E i \in 0..(MaxDim - 1), j \in 0..(MaxDim - 1), value \in MatrixElems :
          LET row == list_getitem(rc.m.mV, i)
              r == list_setitem(rc.lists[row.item], j, value)
          IN /\ row.err = "none" /\ r.err = "none"
             /\ rc' = [rc EXCEPT !.op = "m.setelem", !.index = i, !.err = r.err,
                                 !.pre = rc.lists, !.lists[row.item] = r.l]
    /\ UNCHANGED notRowCol

RowColNext ==
    RowColNew \/ RowColGetRow \/ RowColGetColumn \/ RowColVecSet \/ RowColMatSet

(***************************************************************************)
(* Quaternion.inverse and Quaternion.invert.  Arithmetic is exact: the     *)
(* norm is held by its square, since the root need not be rational, and    *)
(* n * n is that square.                                                   *)
(***************************************************************************)
\* self.conj()
Quaternion_conj(self) ==
    Quaternion_init(self.s, RNeg(self.v[1]), RNeg(self.v[2]), RNeg(self.v[3]))

\* self.norm(): math.sqrt of the sum of the squares, as [sq |-> that sum]
Quaternion_norm(self) ==
    [sq |-> RAdd(RSum([i \in 1..Len(self.v) |-> RMul(self.v[i], self.v[i])]),
                 RMul(self.s, self.s))]

\* self.scale(s), in place; the value is the quaternion afterwards
Quaternion_scale(self, s) == [s |-> RMul(self.s, s), v |-> Vector_scale(self.v, s)]

\* self.inverse(): 1.0 / (n * n) raises for the norm 0
Quaternion_inverse(self) ==
    LET n == Quaternion_norm(self)
        c == Quaternion_conj(self)
    IN IF n.sq = Zero THEN [err |-> "ZeroDivisionError", ret |-> None, self |-> self]
       ELSE [err |-> "none", ret |-> Ref(Quaternion_scale(c, RDiv(One, n.sq))), self |-> self]

\* Mutant: the vector part keeps its sign.
Quaternion_invert_NoConj(self) ==
    LET n == Quaternion_norm(self)
    IN IF n.sq = Zero THEN [err |-> "ZeroDivisionError", self |-> self]
       ELSE LET d == RDiv(One, n.sq)
            IN [err |-> "none",
                self |-> [s |-> RMul(self.s, d),
                          v |-> list([i \in 1..3 |-> RMul(self.v[i], d)], 3)]]

\* self.invert(), in place
Quaternion_invert(self) ==
    LET n == Quaternion_norm(self)
    IN IF n.sq = Zero THEN [err |-> "ZeroDivisionError", self |-> self]
       ELSE LET d == RDiv(One, n.sq)
            IN [err |-> "none",
                self |-> [s |-> RMul(self.s, d),
                          v |-> list([i \in 1..3 |-> RMul(self.v[i], RNeg(d))], 3)]]

\* q = Quaternion(s, a, b, c); orig is a second quaternion built from the same
\* four numbers, which no call is made on.
QuatInvInit ==
    qi \in {[q |-> q, orig |-> q, op |-> "none", err |-> "none", pre |-> q,
             ret |-> None, inverted |-> FALSE, prod |-> None] : q \in Quats}

QuatInvIdle == qi = <<>>

\* ret = q.inverse(), of q as built
QInverse ==
    LET r == Quaternion_inverse(qi.q)
    IN /\ qi.ret = None /\ qi.op # "inverse" /\ ~qi.inverted
       /\ qi' = [qi EXCEPT !.op = "inverse", !.err = r.err, !.pre = qi.q,
                           !.q = r.self, !.ret = r.ret]
       /\ UNCHANGED notQuatInv

\* q.invert()
QInvert ==
    LET r == Quaternion_invert(qi.q)
    IN /\ ~qi.inverted /\ qi.op # "invert"
       /\ qi' = [qi EXCEPT !.op = "invert", !.err = r.err, !.pre = qi.q,
                           !.q = r.self, !.inverted = (r.err = "none")]
       /\ UNCHANGED notQuatInv

\* prod = q.mulq(orig), once q is inverted
QInvertedTimesOrig ==
    LET r == Quaternion_mulq(qi.q, qi.orig)
    IN /\ qi.inverted /\ qi.prod = None
       /\ qi' = [qi EXCEPT !.op = "mulq", !.err = "none", !.pre = qi.q,
                           !.q = r.self, !.prod = Ref(r.ret)]
       /\ UNCHANGED notQuatInv

QuatInvNext == QInverse \/ QInvert \/ QInvertedTimesOrig

(***************************************************************************)
(* TriangleGroup.  A vertex is [surd, v]: the Vector v when surd is FALSE, *)
(* the unit vector along the integer vector v (of coprime elements) when   *)
(* surd is TRUE, which is how a normalized vector of irrational norm is    *)
(* held exactly; two vertices are == exactly when the records are equal.   *)
(* Indices are those of Python, from 0.                                    *)
(***************************************************************************)
Vertex(v) == [surd |-> FALSE, v |-> v]

\* v.normalize() in exact arithmetic, v of three elements
Vertex_normalize(v) ==
    LET n2 == RSum([i \in 1..Len(v) |-> RMul(v[i], v[i])])
        d == v[1][2] * v[2][2] * v[3][2]
        ints == [i \in 1..3 |-> v[i][1] * (d \div v[i][2])]
        g == GCD(GCD(Abs(ints[1]), Abs(ints[2])), Abs(ints[3]))
    IN IF n2 = Zero THEN [err |-> "ZeroDivisionError", ret |-> Vertex(v)]
       ELSE IF math_sqrt(n2) # None
       THEN [err |-> "none", ret |-> Vertex(Vector_normalize(v).self)]
       ELSE [err |-> "none",
             ret |-> [surd |-> TRUE, v |-> list([i \in 1..3 |-> float(ints[i] \div g)], 3)]]

\* self._addVertex(vertex): the index of the first equal vertex, or of the
\* appended one
TriangleGroup_addVertex(self, vertex) ==
    IF \E i \in 1..Len(self.mVertices) : self.mVertices[i] = vertex
    THEN [self |-> self,
          i |-> (CHOOSE i \in 1..Len(self.mVertices) :
                    /\ self.mVertices[i] = vertex
                    /\ \A k \in 1..(i - 1) : self.mVertices[k] # vertex) - 1]
    ELSE [self |-> [self EXCEPT !.mVertices = Append(self.mVertices, vertex)],
          i |-> Len(self.mVertices)]

\* Mutant: only an edge stored in the same direction is recognized.
TriangleGroup_addEdge_Directed(self, edge) ==
    IF edge[1] = edge[2] THEN [err |-> "ValueError", self |-> self]
    ELSE IF \E i \in 1..Len(self.mEdges) : self.mEdges[i] = edge
    THEN [err |-> "none", self |-> self]
    ELSE [err |-> "none", self |-> [self EXCEPT !.mEdges = Append(self.mEdges, edge)]]

\* self._addEdge(edge)
TriangleGroup_addEdge(self, edge) ==
    IF edge[1] = edge[2] THEN [err |-> "ValueError", self |-> self]
    ELSE IF \E i \in 1..Len(self.mEdges) :
               \/ edge[1] = self.mEdges[i][1] /\ edge[2] = self.mEdges[i][2]
               \/ edge[1] = self.mEdges[i][2] /\ edge[2] = self.mEdges[i][1]
    THEN [err |-> "none", self |-> self]
    ELSE [err |-> "none", self |-> [self EXCEPT !.mEdges = Append(self.mEdges, edge)]]

\* Mutant: of the two rotations only the first is recognized.
TriangleGroup__addTriangle_OneRotation(self, triangle) ==
    LET a1 == triangle[1]  b1 == triangle[2]  c1 == triangle[3]
    IN IF a1 = b1 \/ a1 = c1 \/ b1 = c1 THEN [err |-> "ValueError", self |-> self]
       ELSE IF \E i \in 1..Len(self.mTriangles) :
                  LET a2 == self.mTriangles[i][1]
                      b2 == self.mTriangles[i][2]
                      c2 == self.mTriangles[i][3]
                  IN \/ a1 = a2 /\ b1 = b2 /\ c1 = c2
                     \/ a1 = b2 /\ b1 = c2 /\ c1 = a2
       THEN [err |-> "none", self |-> self]
       ELSE [err |-> "none",
             self |-> [self EXCEPT !.mTriangles = Append(self.mTriangles, triangle)]]

\* self._addTriangle(triangle)
TriangleGroup__addTriangle(self, triangle) ==
    LET a1 == triangle[1]  b1 == triangle[2]  c1 == triangle[3]
    IN IF a1 = b1 \/ a1 = c1 \/ b1 = c1 THEN [err |-> "ValueError", self |-> self]
       ELSE IF \E i \in 1..Len(self.mTriangles) :
                  LET a2 == self.mTriangles[i][1]
                      b2 == self.mTriangles[i][2]
                      c2 == self.mTriangles[i][3]
                  IN \/ a1 = a2 /\ b1 = b2 /\ c1 = c2
                     \/ a1 = b2 /\ b1 = c2 /\ c1 = a2
                     \/ a1 = c2 /\ b1 = a2 /\ c1 = b2
       THEN [err |-> "none", self |-> self]
       ELSE [err |-> "none",
             self |-> [self EXCEPT !.mTriangles = Append(self.mTriangles, triangle)]]

\* self.addTriangle(vertex1, vertex2, vertex3): a call that raises leaves
\* what the calls before it have added
TriangleGroup_addTriangle(self, vertex1, vertex2, vertex3) ==
    LET r1 == TriangleGroup_addVertex(self, vertex1)
        r2 == TriangleGroup_addVertex(r1.self, vertex2)
        r3 == TriangleGroup_addVertex(r2.self, vertex3)
        e1 == TriangleGroup_addEdge(r3.self, <<r1.i, r2.i>>)
        e2 == TriangleGroup_addEdge(e1.self, <<r2.i, r3.i>>)
        e3 == TriangleGroup_addEdge(e2.self, <<r3.i, r1.i>>)
    IN IF e1.err # "none" THEN e1
       ELSE IF e2.err # "none" THEN e2
       ELSE IF e3.err # "none" THEN e3
       ELSE TriangleGroup__addTriangle(e3.self, <<r1.i, r2.i, r3.i>>)

\* (a + b).mults(0.5).normalize() of two vertices held as Vectors
midpoint(a, b) == Vertex_normalize(Vector_mults(Vector_add(a.v, b.v).vec, Half).ret)

\* The loop of sphericalSubdivide from the k-th of the old triangles on
RECURSIVE subdivide(_, _, _, _)
subdivide(self, vertices, triangles, k) ==
    IF k > Len(triangles) THEN [err |-> "none", self |-> self]
    ELSE LET A == vertices[triangles[k][1] + 1]
             B == vertices[triangles[k][2] + 1]
             C == vertices[triangles[k][3] + 1]
             D == midpoint(A, B)
             E == midpoint(B, C)
             F == midpoint(C, A)
             t1 == TriangleGroup_addTriangle(self, A, D.ret, F.ret)
             t2 == TriangleGroup_addTriangle(t1.self, D.ret, B, E.ret)
             t3 == TriangleGroup_addTriangle(t2.self, E.ret, C, F.ret)
             t4 == TriangleGroup_addTriangle(t3.self, D.ret, E.ret, F.ret)
         IN IF D.err # "none" THEN [err |-> D.err, self |-> self]
            ELSE IF E.err # "none" THEN [err |-> E.err, self |-> self]
            ELSE IF F.err # "none" THEN [err |-> F.err, self |-> self]
            ELSE IF t1.err # "none" THEN t1
            ELSE IF t2.err # "none" THEN t2
            ELSE IF t3.err # "none" THEN t3
            ELSE IF t4.err # "none" THEN t4
            ELSE subdivide(t4.self, vertices, triangles, k + 1)

\* self.sphericalSubdivide()
TriangleGroup_sphericalSubdivide(self) ==
    subdivide([self EXCEPT !.mEdges = <<>>, !.mTriangles = <<>>],
              self.mVertices, self.mTriangles, 1)

\* The vertices handed to addTriangle: three axes and the opposite of one.
TriVertices ==
    {Vertex(<<One, Zero, Zero>>), Vertex(<<Zero, One, Zero>>), Vertex(<<Zero, Zero, One>>),
     Vertex(<<float(-1), Zero, Zero>>)}

\* TriangleGroup(); pre is the TriangleGroup before the last call, args its
\* vertices, n the number of addTriangle calls made
TriInit ==
    tg = [self |-> [mVertices |-> <<>>, mEdges |-> <<>>, mTriangles |-> <<>>],
          op |-> "none", args |-> <<>>, err |-> "none",
          pre |-> [mVertices |-> <<>>, mEdges |-> <<>>, mTriangles |-> <<>>], n |-> 0]

TriIdle == tg = <<>>

\* tg.addTriangle(vertex1, vertex2, vertex3)
TriAddTriangle ==
    /\ tg.n < MaxAdds
    /\ \E vertex1 \in TriVertices, vertex2 \in TriVertices, vertex3 \in TriVertices :
          LET r == TriangleGroup_addTriangle(tg.self, vertex1, vertex2, vertex3)
          IN tg' = [self |-> r.self, op |-> "addTriangle",
                    args |-> <<vertex1, vertex2, vertex3>>, err |-> r.err,
                    pre |-> tg.self, n |-> tg.n + 1]
    /\ UNCHANGED notTri

\* tg.sphericalSubdivide(), while the vertices of every triangle are held as
\* Vectors
TriSphericalSubdivide ==
    /\ tg.op # "sphericalSubdivide"
    /\ \A k \in 1..Len(tg.self.mTriangles), c \in 1..3 :
          ~tg.self.mVertices[tg.self.mTriangles[k][c] + 1].surd
    /\ LET r == TriangleGroup_sphericalSubdivide(tg.self)
       IN tg' = [tg EXCEPT !.self = r.self, !.op = "sphericalSubdivide", !.args = <<>>,
                           !.err = r.err, !.pre = tg.self]
    /\ UNCHANGED notTri

TriNext == TriAddTriangle \/ TriSphericalSubdivide

(***************************************************************************)
(* CoordinateSys.setParent.  objs[id] is the CoordinateSys object id, its  *)
(* mParent None or a reference Ref(id), its mBasis and mOrigin None (as    *)
(* __init__ starts them) or Ref(value).                                    *)
(***************************************************************************)
\* CoordinateSys(name, parent=parent, origin=origin): the new object is the
\* next id; setParent runs while mBasis and mOrigin are still None
CoordinateSys_init(objs, parent, origin) ==
    LET self == Len(objs) + 1
        r == CoordinateSys_setParent(
                 Append(objs, [mParent |-> None, mBasis |-> None, mOrigin |-> None]),
                 self, parent)
    IN IF r.err # "none" THEN [err |-> r.err, objs |-> objs]
       ELSE [err |-> "none",
             objs |-> [r.objs EXCEPT ![self].mBasis = Ref(Matrix_identity(3)),
                                     ![self].mOrigin =
                                         IF origin # None THEN origin
                                         ELSE Ref(Vector3(Zero, Zero, Zero))]]

\* origin= of the constructor: absent, or a Vector other than the default
ParentOrigins == {None, Ref(Vector3(One, Zero, Zero))}

ParentInit == cp = [objs |-> <<>>, op |-> "none", self |-> 0, parent |-> None, err |-> "none"]

ParentIdle == cp = <<>>

\* c = CoordinateSys(name, parent=parent, origin=origin)
ParentNew ==
    /\ Len(cp.objs) < MaxSystems
    /\ \E parent \in {None} \cup {Ref(i) : i \in 1..Len(cp.objs)}, origin \in ParentOrigins :
          LET r == CoordinateSys_init(cp.objs, parent, origin)
          IN cp' = [objs |-> r.objs, op |-> "init", self |-> Len(cp.objs) + 1,
                    parent |-> parent, err |-> r.err]
    /\ UNCHANGED notParent

\* c.setParent(parent), c and parent any of the objects built, parent also None
ParentSetParent ==
    /\ \E self \in 1..Len(cp.objs), parent \in {None} \cup {Ref(i) : i \in 1..Len(cp.objs)} :
          LET r == CoordinateSys_setParent(cp.objs, self, parent)
          IN cp' = [objs |-> r.objs, op |-> "setParent", self |-> self,
                    parent |-> parent, err |-> r.err]
    /\ UNCHANGED notParent

ParentNext == ParentNew \/ ParentSetParent

(***************************************************************************)
(* Vector.scale and Vector.mults with the element lists held by identity:  *)
(* lists[id] is the content of the list object id and a Vector is          *)
(* [mV |-> id].                                                            *)
(***************************************************************************)
\* self.scale(s): the elements of self.mV are assigned one by one
Vector_scale_inplace(lists, self, s) == [lists EXCEPT ![self.mV] = Vector_scale(lists[self.mV], s)]

\* Mutant: prod is built over the list of self.
Vector_mults_Shared(lists, self, s) ==
    LET prod == [mV |-> self.mV]
    IN [lists |-> Vector_scale_inplace(lists, prod, s), ret |-> prod]

\* self.mults(s): Vector.fromSequence appends the elements to a new list,
\* which prod.scale(s) then changes
Vector_mults_new(lists, self, s) ==
    LET prod == [mV |-> Len(lists) + 1]
    IN [lists |-> Vector_scale_inplace(Append(lists, Vector_fromSequence(lists[self.mV])),
                                       prod, s),
        ret |-> prod]

ShareFactors == {float(-1), float(2)}

\* Before v is built.  pre holds the lists as they were before the last
\* call, on the name of the Vector it was made on, n counts the calls.
ShareInit ==
    vs = [live |-> FALSE, lists |-> <<>>, v |-> [mV |-> 1], w |-> None,
          op |-> "none", on |-> "v", s |-> Zero, pre |-> <<>>, n |-> 0]

ShareIdle == vs = <<>>

\* v = Vector(*args)
ShareNew ==
    /\ ~vs.live
    /\ \E args \in CtorArgs :
          vs' = [vs EXCEPT !.live = TRUE, !.lists = <<Vector_init(args, <<>>).mV>>]
    /\ UNCHANGED notShare

\* w = v.mults(s); the list of the Vector w named before is dropped
ShareMults ==
    /\ vs.live /\ vs.n < MaxCalls
    /\ \E s \in ShareFactors :
          LET r == Vector_mults_new(SubSeq(vs.lists, 1, 1), vs.v, s)
          IN vs' = [vs EXCEPT !.op = "mults", !.on = "v", !.s = s, !.pre = vs.lists,
                              !.lists = r.lists, !.w = Ref(r.ret), !.n = vs.n + 1]
    /\ UNCHANGED notShare

\* v.scale(s) or w.scale(s)
ShareScale ==
    /\ vs.live /\ vs.n < MaxCalls
    /\ \E on \in {"v", "w"}, s \in ShareFactors :
          /\ on = "w" => vs.w # None
          /\ vs' = [vs EXCEPT !.op = "scale", !.on = on, !.s = s, !.pre = vs.lists,
                              !.lists = Vector_scale_inplace(
                                            vs.lists, IF on = "v" THEN vs.v ELSE vs.w[1], s),
                              !.n = vs.n + 1]
    /\ UNCHANGED notShare

ShareNext == ShareNew \/ ShareMults \/ ShareScale

(***************************************************************************)
(* The two transforms of a CoordinateSys applied one after the other, as   *)
(* in CoordinateSysTest.testTransforms: rt.c is the CoordinateSys, rt.heap *)
(* holds its basis Matrix (object CallerId), rt.cur is the Vector the next *)
(* call is given, rt.v0 the Vector the caller started with, rt.trail the   *)
(* calls made, rt.pre the basis, origin and argument before the last call  *)
(* and rt.arg the argument after it.                                       *)
(***************************************************************************)
\* The identity and the other signed permutation matrices: row i holds
\* sign[i] in column perm[i]
SignedPermutations ==
    {Matrix_init([i \in 1..3 |-> [j \in 1..3 |-> IF j = perm[i] THEN float(sign[i]) ELSE Zero]],
                 <<>>).self :
        perm \in {p \in [1..3 -> 1..3] : \A i, j \in 1..3 : i # j => p[i] # p[j]},
        sign \in [1..3 -> {1, -1}]}

TripOrigins == {None} \cup {Ref(o) : o \in [1..3 -> {float(x) : x \in 0..MaxElem}]}

TripVectors == [1..3 -> {float(x) : x \in -MaxElem..MaxElem}]

\* basis = Matrix(...); c = CoordinateSys('Local', basis=basis, origin=origin)
TripInit ==
    \E m \in SignedPermutations, origin \in TripOrigins, v \in TripVectors :
        LET r == CoordinateSys_setBasis([mParent |-> None, mBasis |-> 0,
                                         mBasisTranspose |-> None, mOrigin |-> NoVec],
                                        <<Ref(m)>>, Ref(CallerId), 2)
            c == CoordinateSys_setOrigin(r.self, IF origin = None THEN None ELSE origin[1])
        IN rt = [c |-> c, heap |-> r.heap, v0 |-> v, cur |-> v, arg |-> v, trail |-> <<>>,
                 err |-> "none",
                 pre |-> [basis |-> m, origin |-> c.mOrigin, v |-> v]]

TripIdle == rt = <<>>

\* What a call leaves: the objects as the call left them, its return value
\* as the next argument
TripCall(op, r) ==
    rt' = [rt EXCEPT !.c = [r.self EXCEPT !.mOrigin = r.origin],
                     !.heap = <<Ref(r.basis)>>,
                     !.arg = r.v,
                     !.cur = r.ret,
                     !.trail = Append(rt.trail, op),
                     !.err = r.err,
                     !.pre = [basis |-> rt.heap[CallerId][1], origin |-> rt.c.mOrigin,
                              v |-> rt.cur]]

\* v = c.transformToParentSystem(v)
TripToParent ==
    /\ Len(rt.trail) < MaxCalls /\ rt.err = "none"
    /\ TripCall("toParent", CoordinateSys_transformToParentSystem(rt.c, rt.heap, rt.cur))
    /\ UNCHANGED notTrip

\* v = c.transformFromParentSystem(v)
TripFromParent ==
    /\ Len(rt.trail) < MaxCalls /\ rt.err = "none"
    /\ TripCall("fromParent", CoordinateSys_transformFromParentSystem(rt.c, rt.heap, rt.cur))
    /\ UNCHANGED notTrip

TripNext == TripToParent \/ TripFromParent

(***************************************************************************)
(* C1: in every state reached by constructing a Matrix and applying its    *)
(* public operations (m[i] = row, m[i][j] = x, scale, round, ludecomp),    *)
(* the number of stored rows is nrows and every stored row has ncols       *)
(* elements, (nrows, ncols) being what size() reports.                     *)
(***************************************************************************)
C1_ShapeInvariant ==
    mat.live =>
        /\ Len(mat.mV) = Matrix_size(mat)[1]
        /\ \A i \in 1..Len(mat.mV) : Len(mat.mV[i]) = Matrix_size(mat)[2]

(***************************************************************************)
(* C2: a cached transpose is never used once the basis has changed:        *)
(* transformToParentSystem(v) returns transpose(basis).v + origin for the  *)
(* basis and origin the CoordinateSys has when it is called.               *)
(***************************************************************************)
C2_NoStaleTranspose ==
    (cscall.op = "toParent" /\ cscall.err = "none") =>
        cscall.ret =
            Vector_add(Matrix_multv(Matrix_transpose(cscall.basis[1]).ret, cscall.v).vec,
                       cscall.origin).vec

(***************************************************************************)
(* C3: for a nonsingular square A and a vector b of its size, ludecomp on  *)
(* a copy of A followed by lubacksub(index, b) on that copy returns x with *)
(* A.x = the original b, and x is the passed b overwritten in place.       *)
(***************************************************************************)
\* The k-th minor along the first row, and the determinant by expansion.
Minor(rows, k) ==
    [i \in 1..(Len(rows) - 1) |->
        [j \in 1..(Len(rows) - 1) |-> rows[i + 1][IF j < k THEN j ELSE j + 1]]]

RECURSIVE Det(_)
Det(rows) ==
    IF Len(rows) = 1 THEN rows[1][1]
    ELSE RSum([k \in 1..Len(rows) |->
                  RMul(IF k % 2 = 1 THEN rows[1][k] ELSE RNeg(rows[1][k]), Det(Minor(rows, k)))])

C3_LUSolves ==
    (lu.phase = "solved" /\ Det(lu.A.mV) # Zero) =>
        /\ lu.err = "none"
        /\ Matrix_multv(lu.A, lu.x).vec = lu.b0
        /\ lu.x = lu.b

(***************************************************************************)
(* C6: for vectors a, b of equal length, (a + b) - b == a; sum and         *)
(* difference are element-wise, of the operands' length, and a and b are   *)
(* left unchanged.                                                         *)
(***************************************************************************)
C6_AddSubRoundTrip ==
    /\ (vres.op = "add" /\ vres.err = "none") =>
          /\ Len(vres.vec) = Len(vin.a)
          /\ \A i \in 1..Len(vin.a) : vres.vec[i] = RAdd(vin.a[i], vin.b[i])
          /\ va = vin.a /\ vb.items = vin.b
    /\ (vres.op = "sub" /\ vres.err = "none") =>
          /\ Len(vres.vec) = Len(vin.a)
          /\ \A i \in 1..Len(vin.a) : RAdd(vres.vec[i], vin.b[i]) = vin.a[i]
          /\ va = vin.a /\ vb.items = vin.b
    /\ vres2.op = "subback" =>
          /\ vres2.err = "none"
          /\ Vector_eq(vres2.vec, vin.a)
          /\ va = vin.a /\ vb.items = vin.b

C6_Witness ==
    /\ vres2.op = "subback" /\ vres2.err = "none"
    /\ Len(vin.a) = CrossDim
    /\ \A i \in 1..CrossDim : vin.b[i] # Zero /\ vin.a[i] # Zero

(***************************************************************************)
(* C7: for 3-element vectors a, b: a.cross(b) is the element-wise negation *)
(* of b.cross(a), and a.dot(a.cross(b)) == 0.                              *)
(***************************************************************************)
C7_CrossAntiCommutes ==
    /\ vres2.op = "crossrev" =>
          /\ vres2.err = "none"
          /\ Len(vres.vec) = Len(vres2.vec)
          /\ \A i \in 1..Len(vres.vec) : vres.vec[i] = RNeg(vres2.vec[i])
    /\ vres2.op = "dotcross" => vres2.err = "none" /\ vres2.num = Zero

C7_Witness ==
    /\ vres2.op = "crossrev"
    /\ \A i \in 1..CrossDim : vres.vec[i] # Zero

(***************************************************************************)
(* C8: add, subtract and dot raise the size error exactly when the         *)
(* operands' lengths differ; cross raises exactly when an operand does not *)
(* have 3 elements; a list or tuple of matching length is accepted as the  *)
(* right operand; on error neither operand is modified.                    *)
(***************************************************************************)
C8_SizeValidation ==
    /\ vres.op \in {"add", "sub", "dot"} =>
          /\ vres.err = "IndexError" <=> Len(vin.a) # Len(vin.b)
          /\ vres.err = "none" <=> Len(vin.a) = Len(vin.b)
    /\ vres.op = "cross" =>
          /\ vres.err = "IndexError" <=> (Len(vin.a) # 3 \/ Len(vin.b) # 3)
          /\ vres.err = "none" <=> (Len(vin.a) = 3 /\ Len(vin.b) = 3)
    /\ vres.err # "none" => va = vin.a /\ vb.items = vin.b /\ vres.vec = NoVec

C8_Witness ==
    /\ vres.op = "dot" /\ vres.err = "IndexError"
    /\ vb.kind = "tuple" /\ Len(vin.a) < Len(vin.b)

(***************************************************************************)
(* C10: Vector(x1..xk, size=n) has length n, the supplied values first and *)
(* zeros after them, when n >= k; it fails with the size error when        *)
(* n < k; without size (or with size=None) its length is k; any keyword    *)
(* other than size fails construction.                                     *)
(***************************************************************************)
C10_VectorSize ==
    vcall.op = "init" =>
        LET args == vcall.args
            kw == vcall.kwargs
            k == Len(args)
            other == (DOMAIN kw) \ {"size"} # {}
            sized == "size" \in DOMAIN kw /\ kw["size"] # None
            n == kw["size"][1]
            built(len) ==
                /\ vcall.err = "none" /\ vec.live
                /\ Len(vec.mV) = len
                /\ \A i \in 1..k : vec.mV[i] = float(args[i])
                /\ \A i \in (k + 1)..len : vec.mV[i] = Zero
        IN /\ other => vcall.err = "ValueError"
           /\ (~other /\ sized /\ n >= k) => built(n)
           /\ (~other /\ sized /\ n < k) => vcall.err = "IndexError"
           /\ (~other /\ ~sized) => built(k)

C10_Witness ==
    /\ vcall.op = "init" /\ vcall.err = "none"
    /\ Len(vcall.args) = 3 /\ DOMAIN vcall.kwargs = {"size"}
    /\ vcall.kwargs["size"] = PyInt(4)
    /\ vec.mV[3] # Zero /\ vec.mV[4] = Zero

(***************************************************************************)
(* C4: for all quaternions q1, q2 the three multiplication                 *)
(* implementations return equal quaternions, and none of them modifies q1  *)
(* or q2.                                                                  *)
(***************************************************************************)
C4_MulAgree ==
    /\ \A x \in Algs, y \in Algs :
          (qres[x].done /\ qres[y].done) => Quaternion_eq(qres[x].q, qres[y].q)
    /\ q1 = qin.q1 /\ q2 = qin.q2

C4_Witness ==
    /\ \A x \in Algs : qres[x].done
    /\ qin.via = "none"
    /\ \A i \in 1..3 : qin.q1.v[i] # Zero /\ qin.q2.v[i] # Zero /\ qres["mul1"].q.v[i] # Zero
    /\ qin.q1.s # Zero /\ qin.q2.s # Zero

(***************************************************************************)
(* C5: with i=(0,1,0,0), j=(0,0,1,0), k=(0,0,0,1), each of mul1, mul2 and  *)
(* mulq gives i.i = j.j = k.k = -1, (i.j).k = -1, i.j = k, j.k = i,        *)
(* k.i = j, j.i = -k, k.j = -i, i.k = -j.                                  *)
(***************************************************************************)
QMinusOne == Quaternion_init(float(-1), float(0), float(0), float(0))

QNegated(q) == Quaternion_init(RNeg(q.s), RNeg(q.v[1]), RNeg(q.v[2]), RNeg(q.v[3]))

HamiltonTable ==
    { <<Qi, Qi, QMinusOne>>, <<Qj, Qj, QMinusOne>>, <<Qk, Qk, QMinusOne>>,
      <<Qi, Qj, Qk>>, <<Qj, Qk, Qi>>, <<Qk, Qi, Qj>>,
      <<Qj, Qi, QNegated(Qk)>>, <<Qk, Qj, QNegated(Qi)>>, <<Qi, Qk, QNegated(Qj)>> }

C5_HamiltonLaws ==
    \A x \in Algs :
        qres[x].done =>
            /\ qin.via = "none" =>
                  \A t \in HamiltonTable :
                      (qin.q1 = t[1] /\ qin.q2 = t[2]) => Quaternion_eq(qres[x].q, t[3])
            /\ (qin.via = x /\ qin.first = <<Qi, Qj>> /\ qin.q2 = Qk) =>
                  Quaternion_eq(qres[x].q, QMinusOne)

C5_Witness ==
    /\ qin.via = "mul1" /\ qin.first = <<Qi, Qj>> /\ qin.q2 = Qk
    /\ qres["mul1"].done /\ qres["mul1"].q = QMinusOne

CtorK == Len(mop.args)

CtorW == IF CtorK = 0 THEN 0 ELSE Max({Len(mop.args[i]) : i \in 1..CtorK})

CtorGiven(key) == \E i \in 1..Len(mop.kwargs) : mop.kwargs[i][1] = key

CtorValue(key) == mop.kwargs[CHOOSE i \in 1..Len(mop.kwargs) : mop.kwargs[i][1] = key][2][1]

CtorOnlyRowsCols == \A i \in 1..Len(mop.kwargs) : mop.kwargs[i][1] \in {"rows", "cols"}

CtorShrinks ==
    \/ CtorGiven("rows") /\ CtorValue("rows") < CtorK
    \/ CtorGiven("cols") /\ CtorValue("cols") < CtorW

\* The constructor returned an nr x nc matrix holding the supplied elements
\* at their positions and 0 everywhere else.
CtorGrid(nr, nc) ==
    /\ mop.err = "none"
    /\ Matrix_size(mop.self) = <<nr, nc>>
    /\ Len(mop.self.mV) = nr
    /\ \A i \in 1..nr :
          /\ Len(mop.self.mV[i]) = nc
          /\ \A j \in 1..nc :
                mop.self.mV[i][j] =
                    IF i <= CtorK /\ j <= Len(mop.args[i]) THEN mop.args[i][j] ELSE Zero

C13_Multv ==
    /\ mop.op = "multv" =>
          IF Len(mop.v) # mop.m.mNCols
          THEN mop.err = "TypeError"
          ELSE /\ mop.err = "none"
               /\ Len(mop.ret) = mop.m.mNRows
               /\ \A i \in 1..mop.m.mNRows :
                     mop.ret[i] = RSum([j \in 1..mop.m.mNCols |->
                                           RMul(mop.m.mV[i][j], mop.v[j])])
    /\ mop.op = "multv" => mop.self = mop.m /\ mop.vpost = mop.v
    /\ mop.op = "identity.multv" =>
          IF Len(mop.v) # mop.args[1]
          THEN mop.err = "TypeError"
          ELSE mop.err = "none" /\ mop.ret = mop.v /\ mop.vpost = mop.v

\* A 2x2 matrix of distinct rows times a vector of two different elements.
C13_Witness ==
    /\ mop.op = "multv" /\ mop.err = "none"
    /\ mop.m.mV = <<<<One, Half>>, <<Zero, One>>>>
    /\ mop.v = <<Half, One>>
    /\ mop.ret = <<One, One>>

\* The contents of the matrix's rows in a heap of lists
RowsIn(lists) == [i \in 1..rc.m.mNRows |-> lists[rc.m.mV[i]]]

(***************************************************************************)
(* C14: getRow(i) and getColumn(i) return a Vector over a list of its own  *)
(* holding the row's or column's elements, so that a later change of the   *)
(* returned Vector leaves the matrix as it was and a later change of the   *)
(* matrix leaves the Vector as it was; they raise the index error exactly  *)
(* when i < 0 or i >= nrows (getRow) / i >= ncols (getColumn), and then    *)
(* the matrix is unchanged.                                                *)
(***************************************************************************)
C14_RowColumnCopies ==
    /\ rc.op \in {"getRow", "getColumn"} =>
          /\ RowsIn(rc.lists) = RowsIn(rc.pre)
          /\ rc.err = IF \/ rc.index < 0
                         \/ rc.index >= (IF rc.op = "getRow" THEN rc.m.mNRows ELSE rc.m.mNCols)
                      THEN "IndexError" ELSE "none"
          /\ rc.err = "none" =>
                /\ \A i \in 1..rc.m.mNRows : rc.m.mV[i] # rc.vec[1]
                /\ rc.lists[rc.vec[1]] =
                      IF rc.op = "getRow" THEN RowsIn(rc.pre)[rc.index + 1]
                      ELSE [i \in 1..rc.m.mNRows |-> RowsIn(rc.pre)[i][rc.index + 1]]
    /\ rc.op = "vec.setitem" => RowsIn(rc.lists) = RowsIn(rc.pre)
    /\ (rc.op = "m.setelem" /\ rc.vec # None) => rc.lists[rc.vec[1]] = rc.pre[rc.vec[1]]

\* The Vector returned by getRow(0) of a 2x2 matrix was changed afterwards
\* and differs from the row, which is as it was.
C14_Witness ==
    /\ rc.op = "vec.setitem" /\ rc.vec # None
    /\ rc.m.mNRows = 2 /\ rc.m.mNCols = 2
    /\ rc.lists[rc.vec[1]] = <<Half, One>>
    /\ RowsIn(rc.lists) = <<<<One, One>>, <<Zero, Half>>>>
    /\ RowsIn(rc.pre) = RowsIn(rc.lists)

(***************************************************************************)
(* C15: indexed get and set, scale, mults, normalize, round, add,          *)
(* subtract, dot, cross, clone and equality leave the Vector's length what *)
(* it was, whether they return or raise; a deletion that succeeds leaves   *)
(* the elements before and after the deleted one, in their order, so the   *)
(* length is one less; a deletion that raises changes nothing.             *)
(***************************************************************************)
C15_LengthKept ==
    /\ vcall.op \notin {"none", "init", "delitem"} => Len(vec.mV) = Len(vcall.pre)
    /\ vcall.op = "delitem" =>
          LET key == vcall.args[1]
              n == Len(vcall.pre)
              k == (IF key < 0 THEN key + n ELSE key) + 1
          IN IF vcall.err = "none"
             THEN /\ Len(vec.mV) = n - 1
                  /\ \A i \in 1..(n - 1) :
                        vec.mV[i] = IF i < k THEN vcall.pre[i] ELSE vcall.pre[i + 1]
             ELSE vec.mV = vcall.pre

\* del vec[1] of a vector of three different elements
C15_Witness ==
    /\ vcall.op = "delitem" /\ vcall.err = "none" /\ vcall.args = <<1>>
    /\ vcall.pre = <<One, Zero, float(-1)>>
    /\ vec.mV = <<One, float(-1)>>

\* conj(q) / norm(q)^2 of the quaternion as built, norm(q)^2 being the sum of
\* the squares of its four numbers
InverseOfOrig ==
    LET o == qi.orig
        n2 == RAdd(RAdd(RMul(o.s, o.s), RMul(o.v[1], o.v[1])),
                   RAdd(RMul(o.v[2], o.v[2]), RMul(o.v[3], o.v[3])))
    IN [s |-> RDiv(o.s, n2),
        v |-> <<RDiv(RNeg(o.v[1]), n2), RDiv(RNeg(o.v[2]), n2), RDiv(RNeg(o.v[3]), n2)>>]

(***************************************************************************)
(* C16: for a quaternion q of nonzero norm, q.inverse() returns            *)
(* conj(q)/norm(q)^2 and leaves q as it was, q.invert() makes q that same  *)
(* value, and the inverted q times the original is (1, 0, 0, 0), in exact  *)
(* arithmetic.                                                             *)
(***************************************************************************)
C16_Inverse ==
    qi.orig # Quaternion_init(Zero, Zero, Zero, Zero) =>
        /\ qi.op = "inverse" => qi.err = "none" /\ qi.q = qi.pre
        /\ qi.ret # None => qi.ret[1] = InverseOfOrig
        /\ qi.op = "invert" => qi.err = "none"
        /\ qi.inverted => qi.q = InverseOfOrig
        /\ qi.prod # None => qi.prod[1] = Quaternion_init(One, Zero, Zero, Zero)

\* (1, -1, 1, 1) with the norm 2: inverse() was called, then invert(), then
\* the product taken.
C16_Witness ==
    /\ qi.orig = Quaternion_init(One, float(-1), One, One)
    /\ qi.ret # None /\ qi.inverted /\ qi.prod # None
    /\ qi.q = Quaternion_init(<<1, 4, 0>>, <<1, 4, 0>>, <<-1, 4, 0>>, <<-1, 4, 0>>)
    /\ qi.ret[1] = qi.q
    /\ qi.prod[1] = Quaternion_init(One, Zero, Zero, Zero)

(***************************************************************************)
(* C17: after any sequence of addTriangle and sphericalSubdivide calls no  *)
(* two entries of the edge list denote the same unordered pair of vertex   *)
(* indices.                                                                *)
(***************************************************************************)
C17_EdgesUnique ==
    \A i, j \in 1..Len(tg.self.mEdges) :
        i # j => /\ tg.self.mEdges[i] # tg.self.mEdges[j]
                 /\ tg.self.mEdges[i] # <<tg.self.mEdges[j][2], tg.self.mEdges[j][1]>>

\* A triangle and its reverse orientation were added and the group then
\* subdivided: the edges of the reverse were met in both directions.
C17_Witness ==
    /\ tg.op = "sphericalSubdivide" /\ tg.err = "none" /\ tg.n = 2
    /\ Len(tg.pre.mTriangles) = 2
    /\ tg.pre.mTriangles[2] =
          <<tg.pre.mTriangles[1][1], tg.pre.mTriangles[1][3], tg.pre.mTriangles[1][2]>>
    /\ Len(tg.self.mEdges) > 3

\* The index triple of the vertices of the last addTriangle call
AddedTriple ==
    [c \in 1..3 |->
        (CHOOSE i \in 1..Len(tg.self.mVertices) : tg.self.mVertices[i] = tg.args[c]) - 1]

\* t and its two cyclic rotations
Rotations(t) == {t, <<t[2], t[3], t[1]>>, <<t[3], t[1], t[2]>>}

Stored(triangles, ts) == \E k \in 1..Len(triangles) : triangles[k] \in ts

\* No two stored triples are equal or cyclic rotations of one another, and a
\* rotation of a stored triple, when added, leaves the triangle list as it was.
TrianglesUnique ==
    /\ \A i, j \in 1..Len(tg.self.mTriangles) :
          i # j => tg.self.mTriangles[i] \notin Rotations(tg.self.mTriangles[j])
    /\ (tg.op = "addTriangle" /\ tg.err = "none"
        /\ Stored(tg.pre.mTriangles, Rotations(AddedTriple))) =>
          tg.self.mTriangles = tg.pre.mTriangles

(***************************************************************************)
(* C18 as stated: the triangle list never holds two index triples that are *)
(* equal or cyclic rotations of one another; adding a cyclic rotation of a *)
(* stored triple leaves the list unchanged; adding the reverse orientation *)
(* (A,C,B) of a stored (A,B,C) appends a new entry.                        *)
(***************************************************************************)
C18_Original ==
    /\ TrianglesUnique
    /\ (/\ tg.op = "addTriangle"
        /\ \E k \in 1..Len(tg.pre.mTriangles) :
              AddedTriple = <<tg.pre.mTriangles[k][1], tg.pre.mTriangles[k][3],
                              tg.pre.mTriangles[k][2]>>) =>
          tg.self.mTriangles = Append(tg.pre.mTriangles, AddedTriple)

(***************************************************************************)
(* C18: the triangle list never holds two index triples that are equal or  *)
(* cyclic rotations of one another; adding a cyclic rotation of a stored   *)
(* triple leaves the list unchanged; adding the reverse orientation        *)
(* (A,C,B) of a stored (A,B,C) appends a new entry unless (A,C,B) or one   *)
(* of its rotations is stored already.                                     *)
(***************************************************************************)
C18_TrianglesUnique ==
    /\ TrianglesUnique
    /\ (/\ tg.op = "addTriangle"
        /\ \E k \in 1..Len(tg.pre.mTriangles) :
              AddedTriple = <<tg.pre.mTriangles[k][1], tg.pre.mTriangles[k][3],
                              tg.pre.mTriangles[k][2]>>
        /\ ~Stored(tg.pre.mTriangles, Rotations(AddedTriple))) =>
          tg.self.mTriangles = Append(tg.pre.mTriangles, AddedTriple)

\* (A,B,C), then its reverse (A,C,B), which was appended, then the rotation
\* (B,C,A), which was not.
C18_Witness ==
    /\ tg.op = "addTriangle" /\ tg.err = "none" /\ tg.n = 3
    /\ tg.pre.mTriangles = <<<<0, 1, 2>>, <<0, 2, 1>>>>
    /\ AddedTriple = <<1, 2, 0>>
    /\ tg.self.mTriangles = tg.pre.mTriangles

(***************************************************************************)
(* C19: setParent called on a CoordinateSys with that same object raises   *)
(* the invalid-argument error (ValueError), and in every state reached     *)
(* through the constructor and setParent no CoordinateSys is its own       *)
(* parent.                                                                 *)
(***************************************************************************)
C19_SelfParentRefused ==
    /\ (cp.op = "setParent" /\ cp.parent = Ref(cp.self)) => cp.err = "ValueError"
    /\ \A i \in 1..Len(cp.objs) : cp.objs[i].mParent # Ref(i)

\* The elements of the Vector named on ("v" or "w") in a heap of lists
ElemsOf(lists, on) == lists[IF on = "v" THEN vs.v.mV ELSE vs.w[1].mV]

Scaled(l, s) == [i \in 1..Len(l) |-> RMul(l[i], s)]

(***************************************************************************)
(* C20: v.mults(s) returns a Vector over a list of its own whose elements  *)
(* are s times those of v, and v is as it was; a later in-place change of  *)
(* one of the two (a scale) leaves the other as it was; v.scale(s)         *)
(* multiplies the elements of v itself.                                    *)
(***************************************************************************)
C20_MultsCopies ==
    /\ vs.op = "mults" =>
          /\ vs.w[1].mV # vs.v.mV
          /\ ElemsOf(vs.lists, "w") = Scaled(ElemsOf(vs.pre, "v"), vs.s)
          /\ ElemsOf(vs.lists, "v") = ElemsOf(vs.pre, "v")
    /\ vs.op = "scale" =>
          /\ ElemsOf(vs.lists, vs.on) = Scaled(ElemsOf(vs.pre, vs.on), vs.s)
          /\ (vs.on = "w" \/ vs.w # None) =>
                LET other == IF vs.on = "v" THEN "w" ELSE "v"
                IN ElemsOf(vs.lists, other) = ElemsOf(vs.pre, other)

\* w = v.mults(2) of v = (1, 0, -1), then v.scale(-1): w keeps (2, 0, -2).
C20_Witness ==
    /\ vs.op = "scale" /\ vs.on = "v" /\ vs.s = float(-1) /\ vs.w # None
    /\ ElemsOf(vs.lists, "v") = <<float(-1), Zero, One>>
    /\ ElemsOf(vs.lists, "w") = <<float(2), Zero, float(-2)>>

(***************************************************************************)
(* C21: every setBasis call, the constructor's included, leaves the cached *)
(* transpose cleared; the cache changes to a value only in a               *)
(* transformToParentSystem call that finds it empty, and then to the       *)
(* transpose of the basis of that moment, which the call also uses for its *)
(* result; setOrigin, setParent and transformFromParentSystem leave the    *)
(* cache as it is.                                                         *)
(***************************************************************************)
SetBasisArgs == {None} \cup {Ref(id) : id \in {CallerId} \cup IdentityIds}

C21_CacheDiscipline ==
    /\ cs.mBasisTranspose = None
    /\ [][LET t == Matrix_transpose(heap[cs.mBasis][1]).ret
          IN /\ cs'.mBasisTranspose # None =>
                   ~(\E basis \in SetBasisArgs : CSSetBasis(basis))
             /\ cs'.mBasisTranspose # cs.mBasisTranspose =>
                   IF cs'.mBasisTranspose = None
                   THEN \E basis \in SetBasisArgs : CSSetBasis(basis)
                   ELSE /\ cs.mBasisTranspose = None
                        /\ \E v \in TransformInputs : CSTransformToParent(v)
                        /\ cs'.mBasisTranspose = Ref(t)
             /\ \A v \in TransformInputs :
                   (cs.mBasisTranspose = None /\ cs'.mBasisTranspose # None
                        /\ CSTransformToParent(v)) =>
                       /\ cscall'.err = "none"
                       /\ cscall'.ret = Vector_add(Matrix_multv(t, v).vec, cs.mOrigin).vec
             /\ cs'.mBasisTranspose # cs.mBasisTranspose =>
                   ~((\E origin \in OriginInputs : CSSetOrigin(origin))
                       \/ (\E parent \in {None, Ref(2)} : CSSetParent(parent))
                       \/ (\E v \in TransformInputs : CSTransformFromParent(v)))
       ]_vars

\* The basis was replaced by a second Matrix.identity(3) after construction,
\* that object was changed in place, and a transformToParentSystem since the
\* replacement has cached the transpose of the new basis.
C21_Witness ==
    /\ cs.mBasis = 3
    /\ heap[3] # Ref(Matrix_identity(3))
    /\ cs.mBasisTranspose = Ref(Matrix_transpose(heap[3][1]).ret)
    /\ cscall.op = "toParent"
    /\ cscall.basis = heap[3]
    /\ cs.mParent # None

(***************************************************************************)
(* C22: for a square matrix A with no all-zero row whose elimination meets *)
(* no zero pivot, ludecomp leaves in the matrix the factors L (below the   *)
(* diagonal, unit diagonal implied) and U (on and above the diagonal) with *)
(* L.U = A after the row interchanges recorded in index, applied for       *)
(* j = 0..n-1 in order (row j with row index[j]).                          *)
(***************************************************************************)
Decomposed == lu.phase \in {"decomposed", "solved"}

TinyUsed(m) == \E i \in 1..m.mNRows : m.mV[i][i] = TINY

LowerOf(m) ==
    [i \in 1..m.mNRows |->
        [j \in 1..m.mNRows |-> IF i = j THEN One ELSE IF j < i THEN m.mV[i][j] ELSE Zero]]

UpperOf(m) ==
    [i \in 1..m.mNRows |-> [j \in 1..m.mNRows |-> IF j >= i THEN m.mV[i][j] ELSE Zero]]

Product(L, U) ==
    [i \in 1..Len(L) |->
        [j \in 1..Len(L) |-> RSum([k \in 1..Len(L) |-> RMul(L[i][k], U[k][j])])]]

RECURSIVE Interchanged(_, _, _)
Interchanged(rows, index, jn) ==
    IF jn = 0 THEN rows
    ELSE LET r == Interchanged(rows, index, jn - 1)
         IN [i \in 1..Len(rows) |->
                IF i = jn THEN r[index[jn] + 1]
                ELSE IF i = index[jn] + 1 THEN r[jn]
                ELSE r[i]]

C22_LUFactors ==
    (Decomposed /\ ~TinyUsed(lu.m)) =>
        \A i, j \in 1..lu.A.mNRows :
            Product(LowerOf(lu.m), UpperOf(lu.m))[i][j] =
                Interchanged(lu.A.mV, lu.index, lu.A.mNRows)[i][j]

\* A 3 x 3 matrix decomposed with interchanges in its first two columns and
\* a multiplier below the diagonal in both.
C22_Witness ==
    /\ Decomposed /\ ~TinyUsed(lu.m)
    /\ lu.A.mNRows = 3
    /\ lu.index[1] # 0 /\ lu.index[2] # 1
    /\ lu.m.mV[2][1] # Zero /\ lu.m.mV[3][2] # Zero

(***************************************************************************)
(* C23: ludecomp on an n x n matrix raises the singular-matrix ValueError  *)
(* exactly when some row holds only zeros, and then leaves every element   *)
(* as it was; with no all-zero row it returns normally even for a singular *)
(* matrix, a zero pivot having been replaced by TINY.                      *)
(***************************************************************************)
ZeroRow(A) == \E i \in 1..A.mNRows : \A j \in 1..A.mNRows : A.mV[i][j] = Zero

C23_SingularError ==
    lu.phase \in {"decomposed", "solved", "failed"} =>
        /\ (lu.phase = "failed") <=> ZeroRow(lu.A)
        /\ lu.phase = "failed" => (lu.err = "ValueError" /\ lu.m = lu.A)
        /\ (lu.phase = "decomposed" /\ Det(lu.A.mV) = Zero) =>
              /\ lu.err = "none"
              /\ TinyUsed(lu.m)
              /\ \A i \in 1..lu.A.mNRows : lu.m.mV[i][i] # Zero

\* A matrix with a zero last row refused unchanged.
C23_Witness ==
    /\ lu.phase = "failed" /\ lu.A.mNRows = 3
    /\ \A j \in 1..3 : lu.A.mV[3][j] = Zero
    /\ lu.A.mV[1][1] = One /\ lu.m = lu.A

\* A singular matrix without a zero row decomposed with TINY as last pivot.
C23_TinyPivot ==
    /\ lu.phase = "decomposed" /\ lu.A.mNRows = 3 /\ Det(lu.A.mV) = Zero
    /\ ~ZeroRow(lu.A) /\ lu.m.mV[3][3] = TINY

(***************************************************************************)
(* C24: the d that ludecomp returns is +1 when the number of columns j     *)
(* with index[j] # j is even and -1 when it is odd, and every index[j] is  *)
(* a row number in j..n-1.                                                 *)
(***************************************************************************)
Interchanges == {j \in 0..(lu.A.mNRows - 1) : lu.index[j + 1] # j}

C24_Parity ==
    Decomposed =>
        /\ lu.d = IF Cardinality(Interchanges) % 2 = 0 THEN One ELSE RNeg(One)
        /\ Len(lu.index) = lu.A.mNRows
        /\ \A j \in 0..(lu.A.mNRows - 1) : lu.index[j + 1] \in j..(lu.A.mNRows - 1)

\* two interchanges, d = +1
C24_Witness ==
    Decomposed /\ Cardinality(Interchanges) = 2 /\ lu.d = One

(***************************************************************************)
(* C25: at each column j the pivot row index[j] is a row among j..n-1      *)
(* whose candidate pivot (the column-j value after the elimination of      *)
(* columns 0..j-1) is largest in absolute value among the rows j..n-1.     *)
(***************************************************************************)
\* The candidate pivots of column j: column j of rows j..n-1 as the loop over
\* i in range(j, n) leaves it, before the interchange.
Candidates(A, j) ==
    LET n == A.mNRows
        s0 == lu_cols([mV |-> A.mV, vv |-> list([i \in 1..n |-> lu_rowmax(A.mV, i - 1, n)], n),
                       index |-> [i \in 1..n |-> 0], d |-> One, imax |-> -1, big |-> Zero],
                      j, n)
        s2 == lu_lower([s0 EXCEPT !.mV = lu_upper(s0.mV, j, j)], j, n)
    IN [i \in 1..n |-> RAbs(at(s2.mV, i - 1, j))]

C25_LargestPivot ==
    (Decomposed /\ ~TinyUsed(lu.m)) =>
        \A j \in 0..(lu.A.mNRows - 1) :
            /\ lu.index[j + 1] \in j..(lu.A.mNRows - 1)
            /\ \A i \in j..(lu.A.mNRows - 1) :
                  ~RLt(Candidates(lu.A, j)[lu.index[j + 1] + 1], Candidates(lu.A, j)[i + 1])

(***************************************************************************)
(* C26: for a CoordinateSys with an orthonormal basis (the identity or a   *)
(* signed permutation matrix), an origin and a 3-vector v of integers,     *)
(* transformFromParentSystem(transformToParentSystem(v)) == v and          *)
(* transformToParentSystem(transformFromParentSystem(v)) == v, and no      *)
(* transform changes the vector it is given, the basis or the origin.      *)
(***************************************************************************)
C26_RoundTrip ==
    /\ rt.trail # <<>> =>
          /\ rt.err = "none"
          /\ rt.arg = rt.pre.v
          /\ rt.heap[CallerId][1] = rt.pre.basis
          /\ rt.c.mOrigin = rt.pre.origin
    /\ rt.trail \in {<<"toParent", "fromParent">>, <<"fromParent", "toParent">>} =>
          Vector_eq(rt.cur, rt.v0)

\* There and back through a basis that is not its own transpose, with an
\* origin off zero, the vector in between different from v.
C26_Witness ==
    /\ rt.trail = <<"toParent", "fromParent">>
    /\ rt.cur = rt.v0
    /\ rt.pre.v # rt.v0
    /\ Matrix_transpose(rt.heap[CallerId][1]).ret # rt.heap[CallerId][1]
    /\ rt.heap[CallerId][1].mV[1][2] = float(-1)
    /\ rt.c.mOrigin # Vector3(Zero, Zero, Zero)

(***************************************************************************)
(* C27: setParent(p) with p another CoordinateSys object than the receiver *)
(* returns normally and stores p as the parent, also when p has the same   *)
(* parent, basis and origin values as the receiver; only the receiver      *)
(* itself is refused.                                                      *)
(***************************************************************************)
C27_OtherInstanceAccepted ==
    (cp.op = "setParent" /\ cp.parent # None /\ cp.parent # Ref(cp.self)) =>
        /\ cp.err = "none"
        /\ cp.objs[cp.self].mParent = cp.parent

(***************************************************************************)
(* C28: after any sequence of setParent calls the parent references hold   *)
(* no cycle: following getParent from any CoordinateSys reaches None in    *)
(* finitely many steps.                                                    *)
(***************************************************************************)
\* The objects met by following getParent from object i for k steps
RECURSIVE Ancestors(_, _, _)
Ancestors(objs, i, k) ==
    IF k = 0 \/ objs[i].mParent = None THEN {}
    ELSE {objs[i].mParent[1]} \cup Ancestors(objs, objs[i].mParent[1], k - 1)

C28_NoParentCycle ==
    \A i \in 1..Len(cp.objs) : i \notin Ancestors(cp.objs, i, Len(cp.objs))

(***************************************************************************)
(* C29: an addTriangle call that fails with ValueError because two of its  *)
(* three vertices are equal leaves the vertex list, the edge list and the  *)
(* triangle list as they were before the call; so in every state each      *)
(* stored edge is a side of some stored triangle.                          *)
(***************************************************************************)
SideOf(edge, t) ==
    \E c \in 1..3 :
        LET d == (c % 3) + 1
        IN edge \in {<<t[c], t[d]>>, <<t[d], t[c]>>}

C29_FailedAddKeepsState ==
    /\ (tg.op = "addTriangle" /\ tg.err = "ValueError") => tg.self = tg.pre
    /\ \A e \in 1..Len(tg.self.mEdges) :
          \E k \in 1..Len(tg.self.mTriangles) :
              SideOf(tg.self.mEdges[e], tg.self.mTriangles[k])

(***************************************************************************)
(* C30: a Matrix compared with a nested list by == gives True exactly when *)
(* the list has as many rows and columns as the matrix and all elements    *)
(* in corresponding places are equal, and False, without an exception, in  *)
(* every other case, lists with more or fewer rows or columns included.    *)
(***************************************************************************)
SameShape(m, l) ==
    /\ Len(l) = m.mNRows
    /\ \A i \in 1..Len(l) : Len(l[i]) = m.mNCols

C30_EqList ==
    (mop.op = "eq" /\ mop.args = <<"list">>) =>
        /\ mop.err = "none"
        /\ mop.ret <=> (/\ SameShape(mop.m, mop.v)
                        /\ \A i \in 1..mop.m.mNRows, j \in 1..mop.m.mNCols :
                              mop.m.mV[i][j] = mop.v[i][j])

(***************************************************************************)
(* Specifications: one per class.  Each starts its own objects and leaves  *)
(* the other classes' variables at their idle values.                      *)
(***************************************************************************)
VecOpsStart ==
    /\ VecOpsInit
    /\ VecObjIdle
    /\ QuatIdle
    /\ UtilIdle
    /\ MatrixIdle
    /\ LUIdle
    /\ CoordSysIdle
    /\ MatOpsIdle
    /\ RowColIdle
    /\ QuatInvIdle
    /\ TriIdle
    /\ ParentIdle
    /\ ShareIdle
    /\ TripIdle

SpecVecOps == VecOpsStart /\ [][VecOpsNext]_vars

VecStart ==
    /\ VecObjInit
    /\ VecOpsIdle
    /\ QuatIdle
    /\ UtilIdle
    /\ MatrixIdle
    /\ LUIdle
    /\ CoordSysIdle
    /\ MatOpsIdle
    /\ RowColIdle
    /\ QuatInvIdle
    /\ TriIdle
    /\ ParentIdle
    /\ ShareIdle
    /\ TripIdle

SpecVec == VecStart /\ [][VecObjNext]_vars

QuatStart ==
    /\ QuatInit
    /\ VecOpsIdle
    /\ VecObjIdle
    /\ UtilIdle
    /\ MatrixIdle
    /\ LUIdle
    /\ CoordSysIdle
    /\ MatOpsIdle
    /\ RowColIdle
    /\ QuatInvIdle
    /\ TriIdle
    /\ ParentIdle
    /\ ShareIdle
    /\ TripIdle

SpecQuat == QuatStart /\ [][QuatNext]_vars

UtilStart ==
    /\ UtilInit
    /\ VecOpsIdle
    /\ VecObjIdle
    /\ QuatIdle
    /\ MatrixIdle
    /\ LUIdle
    /\ CoordSysIdle
    /\ MatOpsIdle
    /\ RowColIdle
    /\ QuatInvIdle
    /\ TriIdle
    /\ ParentIdle
    /\ ShareIdle
    /\ TripIdle

SpecUtil == UtilStart /\ [][UtilNext]_vars

MatrixStart ==
    /\ MatrixInit
    /\ VecOpsIdle
    /\ VecObjIdle
    /\ QuatIdle
    /\ UtilIdle
    /\ LUIdle
    /\ CoordSysIdle
    /\ MatOpsIdle
    /\ RowColIdle
    /\ QuatInvIdle
    /\ TriIdle
    /\ ParentIdle
    /\ ShareIdle
    /\ TripIdle

SpecMatrix == MatrixStart /\ [][MatrixNext]_vars

LUStart ==
    /\ LUInit
    /\ VecOpsIdle
    /\ VecObjIdle
    /\ QuatIdle
    /\ UtilIdle
    /\ MatrixIdle
    /\ CoordSysIdle
    /\ MatOpsIdle
    /\ RowColIdle
    /\ QuatInvIdle
    /\ TriIdle
    /\ ParentIdle
    /\ ShareIdle
    /\ TripIdle

SpecLU == LUStart /\ [][LUNext]_vars

CoordSysStart ==
    /\ CoordSysInit
    /\ VecOpsIdle
    /\ VecObjIdle
    /\ QuatIdle
    /\ UtilIdle
    /\ MatrixIdle
    /\ LUIdle
    /\ MatOpsIdle
    /\ RowColIdle
    /\ QuatInvIdle
    /\ TriIdle
    /\ ParentIdle
    /\ ShareIdle
    /\ TripIdle

SpecCoordSys == CoordSysStart /\ [][CoordSysNext]_vars

MatOpsStart ==
    /\ MatOpsInit
    /\ VecOpsIdle
    /\ VecObjIdle
    /\ QuatIdle
    /\ UtilIdle
    /\ MatrixIdle
    /\ LUIdle
    /\ CoordSysIdle
    /\ RowColIdle
    /\ QuatInvIdle
    /\ TriIdle
    /\ ParentIdle
    /\ ShareIdle
    /\ TripIdle

SpecMatOps == MatOpsStart /\ [][MatOpsNext]_vars

RowColStart ==
    /\ RowColInit
    /\ VecOpsIdle
    /\ VecObjIdle
    /\ QuatIdle
    /\ UtilIdle
    /\ MatrixIdle
    /\ LUIdle
    /\ CoordSysIdle
    /\ MatOpsIdle
    /\ QuatInvIdle
    /\ TriIdle
    /\ ParentIdle
    /\ ShareIdle
    /\ TripIdle

SpecRowCol == RowColStart /\ [][RowColNext]_vars

QuatInvStart ==
    /\ QuatInvInit
    /\ VecOpsIdle
    /\ VecObjIdle
    /\ QuatIdle
    /\ UtilIdle
    /\ MatrixIdle
    /\ LUIdle
    /\ CoordSysIdle
    /\ MatOpsIdle
    /\ RowColIdle
    /\ TriIdle
    /\ ParentIdle
    /\ ShareIdle
    /\ TripIdle

SpecQuatInv == QuatInvStart /\ [][QuatInvNext]_vars

TriStart ==
    /\ TriInit
    /\ VecOpsIdle
    /\ VecObjIdle
    /\ QuatIdle
    /\ UtilIdle
    /\ MatrixIdle
    /\ LUIdle
    /\ CoordSysIdle
    /\ MatOpsIdle
    /\ RowColIdle
    /\ QuatInvIdle
    /\ ParentIdle
    /\ ShareIdle
    /\ TripIdle

SpecTri == TriStart /\ [][TriNext]_vars

ParentStart ==
    /\ ParentInit
    /\ VecOpsIdle
    /\ VecObjIdle
    /\ QuatIdle
    /\ UtilIdle
    /\ MatrixIdle
    /\ LUIdle
    /\ CoordSysIdle
    /\ MatOpsIdle
    /\ RowColIdle
    /\ QuatInvIdle
    /\ TriIdle
    /\ ShareIdle
    /\ TripIdle

SpecParent == ParentStart /\ [][ParentNext]_vars

ShareStart ==
    /\ ShareInit
    /\ VecOpsIdle
    /\ VecObjIdle
    /\ QuatIdle
    /\ UtilIdle
    /\ MatrixIdle
    /\ LUIdle
    /\ CoordSysIdle
    /\ MatOpsIdle
    /\ RowColIdle
    /\ QuatInvIdle
    /\ TriIdle
    /\ ParentIdle
    /\ TripIdle

SpecShare == ShareStart /\ [][ShareNext]_vars

TripStart ==
    /\ TripInit
    /\ VecOpsIdle
    /\ VecObjIdle
    /\ QuatIdle
    /\ UtilIdle
    /\ MatrixIdle
    /\ LUIdle
    /\ CoordSysIdle
    /\ MatOpsIdle
    /\ RowColIdle
    /\ QuatInvIdle
    /\ TriIdle
    /\ ParentIdle
    /\ ShareIdle

SpecTrip == TripStart /\ [][TripNext]_vars

====
